---------------------------- MODULE Spec2Model ----------------------------
(***************************************************************************)
(* Model of scrapylib's HCF spider middleware (src/scrapylib/hcf.py).      *)
(*                                                                         *)
(* A worker is one HcfMiddleware instance together with the spider it      *)
(* serves.  The remote frontier (hubstorage's HCF) is the shared variable  *)
(* queue.  Python generators (process_start_requests, _get_new_requests,   *)
(* process_spider_output) are modelled by their suspension points: one     *)
(* action is one next() of the generator, run up to its next yield, its    *)
(* return or the exception that ends it.                                   *)
(***************************************************************************)
EXTENDS Integers, Sequences, FiniteSets, TLC

\* ------------------------------------------------------------------ bounds

\* Largest number of batches the consumed slot holds when a run starts.
MaxBatches == 2
\* Largest number of requests in one batch of the frontier.
MaxBatchSize == 2
\* Largest value of the HS_MAX_LINKS setting that is tried.
MaxLinks == 3
\* Largest number of start_requests (seed requests) handed to the middleware.
MaxSeeds == 2
\* Largest number of elements in one result handed to process_spider_output.
MaxResult == 2
\* Largest number of results handed to process_spider_output in one run.
MaxOutputs == 1
\* Largest number of spider_opened / spider_closed cycles of DeltaFetch.
MaxCycles == 2
\* Largest number of process_item calls of the GUIDPipeline.
MaxItems == 3

\* ------------------------------------------------------------- vocabulary

Workers == {1, 2}

\* Closing reasons the engine passes to spider_closed handlers.
Reasons == {"finished", "shutdown"}

\* A value that stands for Python's None.
None == "None"

\* An attribute that was never assigned (reading it raises AttributeError).
Undefined == "undefined"

\* A Python dict is modelled as a set of <<key, value>> pairs with one pair
\* per key.
DictKeys(d) == {p[1] : p \in d}

DictGet(d, k, default) ==
    IF k \in DictKeys(d) THEN (CHOOSE p \in d : p[1] = k)[2] ELSE default

\* dict.update: the pairs of e replace the pairs of d with the same key.
DictUpdate(d, e) == {p \in d : p[1] \notin DictKeys(e)} \cup e

\* The concatenation of a sequence of sequences.
RECURSIVE Concat(_)
Concat(ss) == IF ss = <<>> THEN <<>> ELSE Head(ss) \o Concat(Tail(ss))

\* ------------------------------------------------------------------ values

\* Work item addresses.  Url k stands for the string "http://a.com/k"; the
\* addresses held by the frontier when a run starts are numbered from 101,
\* the spider's start_requests from 901.

\* The requests of the batch with identifier id when it holds n requests:
\* pairs <<fingerprint, qdata>>, as HubstorageClient's frontier.read gives them.
InitialRequests(id, n) == [j \in 1..n |-> <<100 * id + j, None>>]

\* A batch of the frontier: {'id': ..., 'requests': [[fp, qdata], ...]}.
Batch(id, requests) == [id |-> id, requests |-> requests]

\* The consumed slot's content for a sequence of batch sizes.
InitialQueue(sizes) ==
    [k \in 1..Len(sizes) |-> Batch(k, InitialRequests(k, sizes[k]))]

\* Sequences over S of length 0..n.
SeqsUpTo(S, n) == UNION {[1..k -> S] : k \in 0..n}

\* scrapy.http.Request(url, method, meta): meta is a dict.
Request(url, method, meta) ==
    [kind |-> "request", url |-> url, method |-> method, meta |-> meta]

\* A scraped item (anything that is not a Request).
ScrapedItem(n) == [kind |-> "item", url |-> n, method |-> None, meta |-> {}]

\* The start_requests (seed requests) of the spider, in the spider's order.
SeedRequests(n) == [k \in 1..n |-> Request(900 + k, "GET", {})]

\* An object that is neither a Request nor an item.
OtherObject(n) == [kind |-> "other", url |-> n, method |-> None, meta |-> {}]

\* ------------------------------------------------------------------- state

VARIABLES
    queue,      \* the frontier: slot -> sequence of batches not yet deleted
    next_id,    \* the identifier the frontier gives to its next batch
    c,          \* worker -> the middleware instance, its spider, its generators
    active,     \* the workers that run
    scheduled,  \* the jobs requested by _start_job, in request order
    env,        \* what the engine and the spider may hand to the middleware
    crawler,    \* worker -> its crawler: settings, signals, clients opened
    deltafetch, \* the DeltaFetch middleware, its db and the db file
    constraint, \* a RequiredFields condition and the item it is called with
    guidpipeline \* the GUIDPipeline, its seen set and its last process_item call

vars == <<queue, next_id, c, active, scheduled, env, crawler, deltafetch, constraint,
          guidpipeline>>

\* The variables of the HCF middleware and of the other components.
hcf_vars == <<queue, next_id, c, active, scheduled, env, crawler>>

lib_vars == <<deltafetch, constraint, guidpipeline>>

\* The DeltaFetch middleware is not enabled.
NoDeltaFetch == [pc |-> "none"]

\* No condition is being checked.
NoConstraint == [pc |-> "none"]

\* The GUIDPipeline is not enabled.
NoGUIDPipeline == [pc |-> "none"]

\* Slot names: str(n) for the slot numbers in use.
SlotName(n) ==
    CASE n = 0 -> "0" [] n = 1 -> "1" [] n = 2 -> "2" [] n = 3 -> "3"
      [] n = 4 -> "4" [] n = 5 -> "5" [] n = 6 -> "6" [] n = 7 -> "7"

AllSlots == {SlotName(n) : n \in 0..7}

\* The HS_CONSUME_FROM_SLOT setting of every worker of the model.
ConsumeSlot == "0"

\* hashlib.md5(url).hexdigest() as its 32 hexadecimal digits, for the
\* addresses a spider discovers:
\*   md5("http://a.com/1") = 876f242d9b656eebbb807dad46e1c720
\*   md5("http://a.com/2") = f9b14f0f7aa21a8bf4c6c3df5c2300f5
\*   md5("http://a.com/3") = 814941fbd3c93a0226229f03b123592f
Md5HexDigest(url) ==
    CASE url = 1 ->
        <<8, 7, 6, 15, 2, 4, 2, 13, 9, 11, 6, 5, 6, 14, 14, 11,
        11, 11, 8, 0, 7, 13, 10, 13, 4, 6, 14, 1, 12, 7, 2, 0>>
      [] url = 2 ->
        <<15, 9, 11, 1, 4, 15, 0, 15, 7, 10, 10, 2, 1, 10, 8, 11,
        15, 4, 12, 6, 12, 3, 13, 15, 5, 12, 2, 3, 0, 0, 15, 5>>
      [] url = 3 ->
        <<8, 1, 4, 9, 4, 1, 15, 11, 13, 3, 12, 9, 3, 10, 0, 2,
        2, 6, 2, 2, 9, 15, 0, 3, 11, 1, 2, 3, 5, 9, 2, 15>>

\* int(digest, 16) % n, computed digit by digit (Horner), for n > 0.
HexMod(digest, n) ==
    LET RECURSIVE Rem(_)
        Rem(k) == IF k = 0 THEN 0 ELSE (Rem(k - 1) * 16 + digest[k]) % n
    IN  Rem(Len(digest))

\* -------------------------------------------------------- the remote frontier

\* fclient.read(frontier, slot): the batches of the slot, oldest first.
FrontierRead(q, slot) == q[slot]

\* The remote queue's add for one entry: the entry is appended to the slot; it
\* is read back as a pair <<fp, qdata>> of a batch of its own.
FrontierAdd(q, slot, fp, id) ==
    [q EXCEPT ![slot] = Append(@, Batch(id,
        << <<DictGet(fp, "fp", None), DictGet(fp, "qdata", None)>> >>))]

\* fclient.delete(frontier, slot, ids): the batches named are removed; an
\* identifier the slot does not hold is ignored.
FrontierDelete(q, slot, ids) ==
    [q EXCEPT ![slot] =
        SelectSeq(@, LAMBDA b : \A k \in 1..Len(ids) : ids[k] # b.id)]

\* The identifiers of the batches a slot holds.
QueueIds(q, slot) == {q[slot][k].id : k \in 1..Len(q[slot])}

\* ------------------------------------------------------------ HcfMiddleware

\* The instance HcfMiddleware.__init__ builds from the crawler's settings,
\* with the spider's 'dummy' attribute (set by the job arguments of a job
\* that _start_job scheduled), the positions of its generators and the log of
\* the calls it has made.
HcfMiddleware(max_links, number_of_slots, enabled, on_reason, new_panel, dummy) ==
    [ hs_consume_from_slot   |-> ConsumeSlot,
      hs_number_of_slots     |-> number_of_slots,
      hs_max_links           |-> max_links,
      hs_start_job_enabled   |-> enabled,
      hs_start_job_on_reason |-> on_reason,
      hs_start_job_new_panel |-> new_panel,
      new_links_count        |-> {},          \* defaultdict(int)
      new_links_default      |-> "int",
      batch_ids              |-> <<>>,
      has_new_requests       |-> Undefined,   \* assigned in process_start_requests
      dummy                  |-> dummy,       \* getattr(spider, 'dummy', None)
      \* process_start_requests / _get_new_requests (generators)
      sr_pc          |-> "none",
      start_requests |-> <<>>,
      resp           |-> <<>>,    \* the batches fclient.read returned
      b              |-> 0,       \* batch of resp being iterated
      r              |-> 0,       \* requests of that batch yielded so far
      num_links      |-> 0,
      s              |-> 0,       \* start_requests yielded so far
      emitted        |-> <<>>,    \* what process_start_requests has yielded
      \* process_spider_output (generator)
      so_pc          |-> "none",
      slot_callback  |-> None,    \* getattr(spider, 'slot_callback', ...)
      result         |-> <<>>,
      i              |-> 0,       \* elements of result taken so far
      returned       |-> <<>>,    \* what process_spider_output has yielded
      added_before   |-> 0,       \* fclient.add calls made before this result
      so_error       |-> None,    \* the exception that ended process_spider_output
      \* calls made on the frontier client and the scheduler
      outputs        |-> 0,       \* calls of process_spider_output so far
      reads          |-> 0,
      added          |-> <<>>,    \* <<slot, fp>> of every fclient.add that returned
      pending        |-> <<>>,    \* the entries added that the batch uploader holds
      pending_at_delete |-> <<>>, \* what it held when fclient.delete was called
      deletes        |-> <<>>,    \* the identifier list of every fclient.delete call
      fclient_closed |-> 0,
      hsclient_closed |-> 0,
      jobs           |-> 0,       \* _start_job calls
      \* close_spider
      cs_pc          |-> "open",  \* "open", "returned" or "raised"
      cs_error       |-> None,    \* the exception that ended close_spider
      reason         |-> None ]

\* Line 213: the request built for one entry of a batch.
FrontierRequest(entry) ==
    Request(entry[1], "GET", {<<"hcf_params", {<<"qdata", entry[2]>>}>>})

\* Mutant: the pull stops after every batch.
MaxLinksReachedAlways(m) == TRUE

\* Mutant: the pull stops only once the links read exceed HS_MAX_LINKS.
MaxLinksReachedStrict(m) == m.num_links > m.hs_max_links

\* Line 215: the pull stops once the links read reach HS_MAX_LINKS.
MaxLinksReached(m) == m.num_links >= m.hs_max_links

\* Mutant: the start_requests are used by the first job whatever the
\* frontier gave.
UseStartRequestsFirstJob(m) == ~m.dummy

\* Mutant: the start_requests are used by every job the frontier gave nothing.
UseStartRequestsEveryJob(m) == m.has_new_requests = "False"

\* Line 153: the start_requests are used when the frontier gave nothing and
\* this is the first job.
UseStartRequests(m) == m.has_new_requests = "False" /\ ~m.dummy

\* Lines 155-156: the next start request, or the end of the generator.
StartRequestsLoop(m) ==
    IF m.s < Len(m.start_requests)
    THEN [m EXCEPT !.sr_pc = "in_start_requests", !.s = m.s + 1,
                   !.emitted = Append(m.emitted, m.start_requests[m.s + 1])]
    ELSE [m EXCEPT !.sr_pc = "done"]

\* Lines 151-156, entered when _get_new_requests returns.
AfterNewRequests(m) ==
    IF UseStartRequests(m) THEN StartRequestsLoop(m)
    ELSE [m EXCEPT !.sr_pc = "done"]

RECURSIVE get_new_requests_append_first(_)
\* Mutant: a batch's identifier is appended when the loop over its requests
\* begins, before its first request is yielded.
get_new_requests_append_first(m) ==
    IF m.b > Len(m.resp) THEN AfterNewRequests(m)
    ELSE LET begun == IF m.r = 0
                      THEN [m EXCEPT !.batch_ids = Append(m.batch_ids, m.resp[m.b].id)]
                      ELSE m
         IN  IF m.r < Len(m.resp[m.b].requests)
             THEN [begun EXCEPT !.sr_pc = "in_batch", !.r = m.r + 1,
                       !.num_links = m.num_links + 1,
                       !.has_new_requests = "True",
                       !.emitted = Append(m.emitted,
                                      FrontierRequest(m.resp[m.b].requests[m.r + 1]))]
             ELSE IF MaxLinksReached(begun) THEN AfterNewRequests(begun)
             ELSE get_new_requests_append_first([begun EXCEPT !.b = m.b + 1, !.r = 0])

RECURSIVE get_new_requests_break_first(_)
\* Mutant: HS_MAX_LINKS is tested before the batch's identifier is appended,
\* so the batch the pull stops at is never recorded.
get_new_requests_break_first(m) ==
    IF m.b > Len(m.resp) THEN AfterNewRequests(m)
    ELSE IF m.r < Len(m.resp[m.b].requests)
    THEN [m EXCEPT !.sr_pc = "in_batch", !.r = m.r + 1,
                   !.num_links = m.num_links + 1,
                   !.has_new_requests = "True",
                   !.emitted = Append(m.emitted,
                                  FrontierRequest(m.resp[m.b].requests[m.r + 1]))]
    ELSE IF MaxLinksReached(m) THEN AfterNewRequests(m)
    ELSE get_new_requests_break_first(
             [m EXCEPT !.batch_ids = Append(m.batch_ids, m.resp[m.b].id),
                       !.b = m.b + 1, !.r = 0])

RECURSIVE get_new_requests(_)
\* Lines 147-149 and 210-216: _get_new_requests runs to its next yield (the
\* request is handed on by process_start_requests, which sets
\* has_new_requests first) or to its end.  A batch's identifier is appended
\* when the loop over its requests ends.
get_new_requests(m) ==
    IF m.b > Len(m.resp) THEN AfterNewRequests(m)
    ELSE IF m.r < Len(m.resp[m.b].requests)
    THEN [m EXCEPT !.sr_pc = "in_batch", !.r = m.r + 1,
                   !.num_links = m.num_links + 1,
                   !.has_new_requests = "True",
                   !.emitted = Append(m.emitted,
                                  FrontierRequest(m.resp[m.b].requests[m.r + 1]))]
    ELSE LET done == [m EXCEPT !.batch_ids = Append(m.batch_ids, m.resp[m.b].id)]
         IN  IF MaxLinksReached(done) THEN AfterNewRequests(done)
             ELSE get_new_requests([done EXCEPT !.b = m.b + 1, !.r = 0])

\* Line 77: the number of slots when HS_NUMBER_OF_SLOTS is not set.
DEFAULT_HS_NUMBER_OF_SLOTS == 8

\* What `x % 0` raises.
ZeroDivisionError == "ZeroDivisionError"

\* Mutant: the slot is taken modulo the default number of slots, not the
\* configured one.
get_slot_default_slots(m, request) ==
    SlotName(HexMod(Md5HexDigest(request.url), DEFAULT_HS_NUMBER_OF_SLOTS))

\* Lines 233-238: the default slot of a request,
\* str(int(digest, 16) % self.hs_number_of_slots); the modulo raises
\* ZeroDivisionError when hs_number_of_slots is 0.
get_slot(m, request) ==
    IF m.hs_number_of_slots = 0 THEN ZeroDivisionError
    ELSE SlotName(HexMod(Md5HexDigest(request.url), m.hs_number_of_slots))

\* Line 159: the spider's slot_callback when it defines one (here a callback
\* that answers the slot it is named after), _get_slot otherwise.
SlotCallback(m, slot_callback, request) ==
    IF slot_callback = None THEN get_slot(m, request) ELSE slot_callback

\* Mutant: a request marked use_hcf is stored whatever its method.
StoredInHcfAnyMethod(item) ==
    item.kind = "request" /\ DictGet(item.meta, "use_hcf", FALSE)

\* Mutant: a GET request is stored whether or not it is marked use_hcf.
StoredInHcfUnmarked(item) == item.kind = "request" /\ item.method = "GET"

\* Lines 161-164: the request is stored in the HCF instead of being yielded.
StoredInHcf(item) ==
    /\ item.kind = "request"
    /\ DictGet(item.meta, "use_hcf", FALSE)
    /\ item.method = "GET"

\* Mutant: the entry holds the fingerprint alone; hcf_params is not merged.
FingerprintOnly(request) == {<<"fp", request.url>>}

\* Lines 166-169: the entry sent for a request.
Fingerprint(request) ==
    LET hcf_params == DictGet(request.meta, "hcf_params", {})
    IN  DictUpdate({<<"fp", request.url>>}, hcf_params)

\* Mutant: a slot that has a link counted is not counted again.
CountLinkOnce(count, slot) == DictUpdate(count, {<<slot, 1>>})

\* Line 173: new_links_count[slot] += 1 on a defaultdict(int).
CountLink(count, slot) ==
    DictUpdate(count, {<<slot, DictGet(count, slot, 0) + 1>>})

RECURSIVE SpiderOutputLoopCountFirst(_)
\* Mutant: the link is counted before fclient.add is called, so an add that
\* raises leaves the count of a link that was not added.
SpiderOutputLoopCountFirst(st) ==
    LET m == st.m
    IN  IF m.i >= Len(m.result)
        THEN [st EXCEPT !.m.so_pc = "done"]
        ELSE LET item == m.result[m.i + 1]
             IN  IF ~StoredInHcf(item)
                 THEN [st EXCEPT !.m.so_pc = "suspended", !.m.i = m.i + 1,
                                 !.m.returned = Append(m.returned, item)]
                 ELSE IF SlotCallback(m, m.slot_callback, item) = ZeroDivisionError
                 THEN [st EXCEPT !.m.so_pc = "raised", !.m.i = m.i + 1,
                                 !.m.so_error = ZeroDivisionError]
                 ELSE LET slot == SlotCallback(m, m.slot_callback, item)
                          fp == Fingerprint(item)
                          counted == CountLink(m.new_links_count, slot)
                      IN  IF st.adds_ok = 0
                          THEN [st EXCEPT !.m.so_pc = "raised", !.m.i = m.i + 1,
                                          !.m.so_error = "RemoteCallError",
                                          !.m.new_links_count = counted]
                          ELSE SpiderOutputLoopCountFirst(
                               [st EXCEPT !.m.i = m.i + 1,
                                   !.m.added = Append(m.added, <<slot, fp>>),
                                   !.m.pending = Append(m.pending, <<slot, fp>>),
                                   !.m.new_links_count = counted,
                                   !.adds_ok = st.adds_ok - 1])

RECURSIVE SpiderOutputLoop(_)
\* Lines 160-181: process_spider_output runs to its next yield, to its end, or
\* to an exception: of the slot function (line 165), of an fclient.add that
\* fails (line 172) or of the count (line 173).  fclient.add hands the entry
\* to the client's batch uploader (lines 170-171), which writes it to the
\* frontier later.  st is [m, adds_ok]; st.adds_ok is the number of
\* fclient.add calls that return before one raises.
SpiderOutputLoop(st) ==
    LET m == st.m
    IN  IF m.i >= Len(m.result)
        THEN [st EXCEPT !.m.so_pc = "done"]
        ELSE LET item == m.result[m.i + 1]
             IN  IF ~StoredInHcf(item)
                 THEN [st EXCEPT !.m.so_pc = "suspended", !.m.i = m.i + 1,
                                 !.m.returned = Append(m.returned, item)]
                 ELSE IF SlotCallback(m, m.slot_callback, item) = ZeroDivisionError
                 THEN [st EXCEPT !.m.so_pc = "raised", !.m.i = m.i + 1,
                                 !.m.so_error = ZeroDivisionError]
                 ELSE IF st.adds_ok = 0
                 THEN [st EXCEPT !.m.so_pc = "raised", !.m.i = m.i + 1,
                                 !.m.so_error = "RemoteCallError"]
                 ELSE LET slot == SlotCallback(m, m.slot_callback, item)
                          fp == Fingerprint(item)
                      IN  IF m.new_links_default = "list" /\ slot \notin DictKeys(m.new_links_count)
                          THEN \* [] += 1 raises TypeError after the add
                               [st EXCEPT !.m.so_pc = "raised", !.m.i = m.i + 1,
                                   !.m.so_error = "TypeError",
                                   !.m.added = Append(m.added, <<slot, fp>>),
                                   !.m.pending = Append(m.pending, <<slot, fp>>)]
                          ELSE SpiderOutputLoop(
                               [st EXCEPT !.m.i = m.i + 1,
                                   !.m.added = Append(m.added, <<slot, fp>>),
                                   !.m.pending = Append(m.pending, <<slot, fp>>),
                                   !.m.new_links_count = CountLink(m.new_links_count, slot),
                                   !.adds_ok = st.adds_ok - 1])

RECURSIVE Upload(_, _)
\* The batch uploader writes the first n entries it holds to the frontier,
\* in the order they were added.  st holds m, queue and next_id.
Upload(st, n) ==
    IF n = 0 \/ st.m.pending = <<>> THEN st
    ELSE LET entry == Head(st.m.pending)
         IN  Upload([st EXCEPT
                        !.m.pending = Tail(st.m.pending),
                        !.queue = FrontierAdd(st.queue, entry[1], entry[2], st.next_id),
                        !.next_id = st.next_id + 1],
                    n - 1)

\* Lines 222-223: the messages _save_new_links_count logs, one for each slot
\* of the mapping, as pairs <<link_count, slot>>.
SaveNewLinksMessages(m) == {<<p[2], p[1]>> : p \in m.new_links_count}

\* Lines 220-224: the counts are logged and the mapping is replaced by an
\* empty defaultdict(list).
save_new_links_count(m) ==
    [m EXCEPT !.new_links_count = {}, !.new_links_default = "list"]

\* Mutant: batch_ids is reset whether or not the delete call returns.
delete_processed_ids_reset_first(st, ok) ==
    LET m == st.m
        sent == [m EXCEPT !.deletes = Append(m.deletes, m.batch_ids),
                          !.pending_at_delete = m.pending,
                          !.batch_ids = <<>>]
    IN  IF ok
        THEN [st EXCEPT !.m = sent,
                        !.queue = FrontierDelete(st.queue, m.hs_consume_from_slot,
                                                 m.batch_ids)]
        ELSE [st EXCEPT !.m = [sent EXCEPT !.cs_pc = "raised",
                                           !.cs_error = "RemoteCallError"]]

\* Lines 226-231: one fclient.delete carrying batch_ids; batch_ids is reset
\* when the call returns, and the exception of a call that fails leaves the
\* method before the reset.  st is [m, queue, next_id, scheduled]; ok tells
\* whether the call returns.
delete_processed_ids(st, ok) ==
    LET m == st.m
        sent == [m EXCEPT !.deletes = Append(m.deletes, m.batch_ids),
                          !.pending_at_delete = m.pending]
    IN  IF ok
        THEN [st EXCEPT !.m = [sent EXCEPT !.batch_ids = <<>>],
                        !.queue = FrontierDelete(st.queue, m.hs_consume_from_slot,
                                                 m.batch_ids)]
        ELSE [st EXCEPT !.m = [sent EXCEPT !.cs_pc = "raised",
                                           !.cs_error = "RemoteCallError"]]

\* Lines 124-132: the job request; only the old panel's schedule call passes
\* the slot and the 'dummy' argument.
start_job(st) ==
    LET m == st.m
    IN  [st EXCEPT !.m.jobs = @ + 1,
                   !.scheduled = Append(st.scheduled,
                       IF m.hs_start_job_new_panel
                       THEN [slot |-> None, dummy |-> FALSE]
                       ELSE [slot |-> m.hs_consume_from_slot, dummy |-> TRUE])]

\* Mutant: the results are stored whatever the closing reason.
StoreResultsAlways(reason) == TRUE

\* Line 188: the links are reported and the batches deleted only when the
\* spider finished normally.
StoreResults(reason) == reason = "finished"

\* Line 199.
StartJobOnReason(m, reason) ==
    m.hs_start_job_enabled /\ reason \in m.hs_start_job_on_reason

\* Mutant: the job is started for a later job of the chain, not the first.
StartJobWantedLaterJob(m) == m.has_new_requests = "True" \/ m.dummy

\* Line 203: the job had requests from the HCF or it was the first job.
\* (has_new_requests is read first; it is defined here.)
StartJobWanted(m) == m.has_new_requests = "True" \/ ~m.dummy

\* Lines 188-190.
CloseStore(st, reason, fail) ==
    IF StoreResults(reason)
    THEN delete_processed_ids([st EXCEPT !.m = save_new_links_count(st.m)],
                              fail # "delete")
    ELSE st

\* Lines 192-195: fclient.close(), which makes sure that the entries the
\* batch uploader holds are stored, then hsclient.close(); either may raise.
CloseClients(st, fail) ==
    IF st.m.cs_pc = "raised" THEN st
    ELSE IF fail = "fclient.close"
    THEN [st EXCEPT !.m.fclient_closed = @ + 1, !.m.cs_pc = "raised",
                    !.m.cs_error = "RemoteCallError"]
    ELSE LET stored == Upload(st, Len(st.m.pending))
         IN  IF fail = "hsclient.close"
             THEN [stored EXCEPT !.m.fclient_closed = @ + 1,
                                 !.m.hsclient_closed = @ + 1, !.m.cs_pc = "raised",
                                 !.m.cs_error = "RemoteCallError"]
             ELSE [stored EXCEPT !.m.fclient_closed = @ + 1,
                                 !.m.hsclient_closed = @ + 1]

\* Lines 199-204: reading has_new_requests before process_start_requests has
\* assigned it raises AttributeError.
CloseStartJob(st, reason) ==
    IF st.m.cs_pc = "raised" THEN st
    ELSE IF ~StartJobOnReason(st.m, reason) THEN st
    ELSE IF st.m.has_new_requests = Undefined
    THEN [st EXCEPT !.m.cs_pc = "raised", !.m.cs_error = "AttributeError"]
    ELSE IF StartJobWanted(st.m) THEN start_job(st)
    ELSE st

\* Lines 183-204, the whole handler.  fail names the remote call that raises,
\* "none" when every call returns.
CloseSpiderBody(st, reason, fail) ==
    LET entered == [st EXCEPT !.m.cs_pc = "running", !.m.reason = reason]
        left == CloseStartJob(CloseClients(CloseStore(entered, reason, fail), fail),
                              reason)
    IN  IF left.m.cs_pc = "raised" THEN left
        ELSE [left EXCEPT !.m.cs_pc = "returned"]

Failures == {"none", "delete", "fclient.close", "hsclient.close"}

\* ------------------------------------------------------------------ inputs

\* What a spider callback may produce: a scraped item, a request that does
\* not use the HCF, GET requests marked use_hcf (with and without
\* hcf_params) and a POST request marked use_hcf.
OutputPool ==
    { ScrapedItem(1),
      Request(1, "GET", {}),
      Request(1, "GET", {<<"use_hcf", TRUE>>, <<"hcf_params", {<<"qdata", "d1">>}>>}),
      Request(2, "GET", {<<"use_hcf", TRUE>>}),
      Request(3, "POST", {<<"use_hcf", TRUE>>}) }

\* The spider's slot_callback: none, or one that answers slot "1".
SlotCallbacks == {None, "1"}

\* The environment of a run: the results spider callbacks may produce, the
\* slot_callback the spider may define, the numbers of start_requests it may
\* have and the number of results the engine hands over.
Environment(results, callbacks, seeds, outputs) ==
    [results |-> results, callbacks |-> callbacks, seeds |-> seeds,
     outputs |-> outputs]

\* The settings tried.  The job settings matter only when jobs are enabled;
\* otherwise they keep their defaults.
Settings(max_links) ==
    { st \in [ max_links : max_links,
               enabled   : BOOLEAN,
               on_reason : {{"finished"}, {"shutdown"}},
               new_panel : BOOLEAN,
               dummy     : BOOLEAN ] :
        ~st.enabled => (st.on_reason = {"finished"} /\ ~st.new_panel) }

\* The settings with the job settings left at their defaults.
PullSettings(max_links) == {st \in Settings(max_links) : ~st.enabled}

\* A worker that never runs.
Idle == HcfMiddleware(1, DEFAULT_HS_NUMBER_OF_SLOTS, FALSE, {"finished"}, FALSE, FALSE)

\* ------------------------------------------------------------- construction

\* The value of a setting: None, an int, a str, a bool or a list of closing
\* reasons, as one record shape (t is the type, n the number, s the string,
\* l the elements of the list).
PyNone == [t |-> "None", n |-> 0, s |-> "", l |-> {}]
PyInt(n) == [t |-> "int", n |-> n, s |-> "", l |-> {}]
PyStr(s) == [t |-> "str", n |-> 0, s |-> s, l |-> {}]
PyBool(b) == [t |-> "bool", n |-> IF b THEN 1 ELSE 0, s |-> "", l |-> {}]
PyList(l) == [t |-> "list", n |-> 0, s |-> "", l |-> l]

\* Python's truth test of a value (`not value` is its negation).
Truthy(v) ==
    CASE v.t = "None" -> FALSE
      [] v.t = "int"  -> v.n # 0
      [] v.t = "bool" -> v.n # 0
      [] v.t = "str"  -> v.s # ""
      [] v.t = "list" -> v.l # {}

\* crawler.settings.get(key, default): the default stands in for a setting
\* that is absent (or None).
SettingsGet(settings, key, default) ==
    LET value == DictGet(settings, key, PyNone)
    IN  IF value.t = "None" THEN default ELSE value

\* int(value) for the values tried: the number itself, the number a decimal
\* string spells, ValueError for any other string.
PyIntOf(v) ==
    CASE v.t \in {"int", "bool"} -> [ok |-> TRUE, n |-> v.n]
      [] v.t = "str" /\ v.s = "0" -> [ok |-> TRUE, n |-> 0]
      [] v.t = "str" /\ v.s = "1" -> [ok |-> TRUE, n |-> 1]
      [] v.t = "str" /\ v.s = "2" -> [ok |-> TRUE, n |-> 2]
      [] v.t = "str" /\ v.s = "3" -> [ok |-> TRUE, n |-> 3]
      [] v.t = "str" /\ v.s = "8" -> [ok |-> TRUE, n |-> 8]
      [] OTHER -> [ok |-> FALSE, n |-> 0]

DEFAULT_MAX_LINKS == 1000

\* Lines 90-97: try: int(settings.get(key, default)) except ValueError: default.
IntSetting(settings, key, default) ==
    LET r == PyIntOf(SettingsGet(settings, key, PyInt(default)))
    IN  IF r.ok THEN r.n ELSE default

\* The exception _get_config raises for a key.
NotConfigured(key) == [t |-> "NotConfigured", n |-> 0, s |-> key, l |-> {}]

\* Mutant: only a setting that is absent is refused.
get_config_absent_only(settings, key) ==
    LET value == DictGet(settings, key, PyNone)
    IN  IF value.t = "None" THEN NotConfigured(key) ELSE value

\* Lines 115-119: the value of a required setting; NotConfigured when the
\* value is false in Python's sense (absent, None, '', 0).
get_config(settings, key) ==
    LET value == DictGet(settings, key, PyNone)
    IN  IF ~Truthy(value) THEN NotConfigured(key) ELSE value

\* The settings __init__ reads with _get_config, in the order of lines 86-89.
RequiredSettings ==
    <<"HS_AUTH", "HS_PROJECTID", "HS_FRONTIER", "HS_CONSUME_FROM_SLOT">>

\* A crawler with its settings, before any middleware is built from it.
Crawler(settings) ==
    [pc |-> "created", settings |-> settings, clients |-> {}, signals |-> {},
     error |-> PyNone]

\* The worker has no crawler.
NoCrawler == [Crawler({}) EXCEPT !.pc = "none"]

\* Lines 82-113: HcfMiddleware.__init__(crawler) for a spider with or without
\* the 'dummy' attribute.  The first required setting _get_config refuses
\* raises NotConfigured, before any client is opened (lines 103, 106) and
\* before close_spider is connected to spider_closed (line 113).  The result
\* is the crawler afterwards and the instance built (the instance matters
\* only when nothing was raised).
HcfMiddlewareInit(cr, dummy) ==
    LET settings == cr.settings
        config == [k \in 1..Len(RequiredSettings) |->
                      get_config(settings, RequiredSettings[k])]
        refused == {k \in 1..Len(RequiredSettings) : config[k].t = "NotConfigured"}
        new_panel == Truthy(SettingsGet(settings, "HS_START_JOB_NEW_PANEL", PyBool(FALSE)))
        m == [HcfMiddleware(
                  IntSetting(settings, "HS_MAX_LINKS", DEFAULT_MAX_LINKS),
                  IntSetting(settings, "HS_NUMBER_OF_SLOTS", DEFAULT_HS_NUMBER_OF_SLOTS),
                  Truthy(SettingsGet(settings, "HS_START_JOB_ENABLED", PyBool(FALSE))),
                  SettingsGet(settings, "HS_START_JOB_ON_REASON", PyList({"finished"})).l,
                  new_panel, dummy)
              EXCEPT !.hs_consume_from_slot = config[4].s]
    IN  IF refused # {}
        THEN [crawler |-> [cr EXCEPT !.pc = "raised",
                  !.error = config[CHOOSE k \in refused : \A k2 \in refused : k <= k2]],
              m |-> Idle]
        ELSE [crawler |-> [cr EXCEPT !.pc = "built",
                  !.clients = (IF new_panel THEN {} ELSE {"Connection"})
                                  \cup {"HubstorageClient"},
                  !.signals = {<<"spider_closed", "close_spider">>}],
              m |-> m]

\* The settings dict of a crawler whose required settings are set and whose
\* optional settings are those of st.
SettingsDict(st) ==
    { <<"HS_AUTH", PyStr("key")>>, <<"HS_PROJECTID", PyStr("1")>>,
      <<"HS_FRONTIER", PyStr("test")>>, <<"HS_CONSUME_FROM_SLOT", PyStr(ConsumeSlot)>>,
      <<"HS_MAX_LINKS", PyInt(st.max_links)>>,
      <<"HS_START_JOB_ENABLED", PyBool(st.enabled)>>,
      <<"HS_START_JOB_ON_REASON", PyList(st.on_reason)>>,
      <<"HS_START_JOB_NEW_PANEL", PyBool(st.new_panel)>> }

\* The state after construction: the consumed slot holds batches of the
\* sizes given by one of batch_sizes, the workers of run are built from one
\* of settings.
InitWith(run, batch_sizes, settings, environment) ==
    /\ active = run
    /\ \E sizes \in batch_sizes :
        /\ queue = [slot \in AllSlots |->
                        IF slot = ConsumeSlot THEN InitialQueue(sizes) ELSE <<>>]
        /\ next_id = Len(sizes) + 1
    /\ \E st \in settings :
          LET built == HcfMiddlewareInit(Crawler(SettingsDict(st)), st.dummy)
          IN  /\ c = [w \in Workers |-> IF w \in run THEN built.m ELSE Idle]
              /\ crawler = [w \in Workers |->
                              IF w \in run THEN built.crawler ELSE NoCrawler]
    /\ scheduled = <<>>
    /\ env = environment
    /\ deltafetch = NoDeltaFetch
    /\ constraint = NoConstraint
    /\ guidpipeline = NoGUIDPipeline

\* One worker, every job setting and closing reason, short batches and up to
\* MaxOutputs results of at most one element.
Init ==
    InitWith({1}, SeqsUpTo(1..2, MaxBatches), Settings(1..2),
             Environment(SeqsUpTo({Request(2, "GET", {<<"use_hcf", TRUE>>}),
                                   Request(3, "POST", {<<"use_hcf", TRUE>>})}, 1),
                         {None}, {0, 1}, MaxOutputs))

\* One worker reading a frontier of up to MaxBatches batches of up to
\* MaxBatchSize requests with HS_MAX_LINKS up to MaxLinks.
InitPull ==
    InitWith({1}, SeqsUpTo(1..MaxBatchSize, MaxBatches), PullSettings(1..MaxLinks),
             Environment({<<Request(2, "GET", {<<"use_hcf", TRUE>>})>>},
                         {None}, 0..MaxSeeds, 1))

\* One worker whose spider produces one result, any of up to MaxResult
\* elements, with or without a slot_callback.
InitOutput ==
    InitWith({1}, {<<>>, <<1>>}, PullSettings({1}),
             Environment(SeqsUpTo(OutputPool, MaxResult), SlotCallbacks, {1}, 1))

\* Two workers of the same spider consume the same slot of one frontier;
\* each discovers a link for that slot, with queue data (the spider's
\* slot_callback answers the consumed slot).  The slot holds up to MaxBatches batches, the last of two
\* requests and the others of one.
InitTwo ==
    InitWith(Workers, {[k \in 1..n |-> IF k = n THEN 2 ELSE 1] : n \in 1..MaxBatches},
             {st \in PullSettings({1, 2}) : ~st.dummy},
             Environment({<<Request(2, "GET", {<<"use_hcf", TRUE>>,
                                <<"hcf_params", {<<"qdata", "d1">>}>>})>>,
                          <<Request(3, "GET", {<<"use_hcf", TRUE>>,
                                <<"hcf_params", {<<"qdata", "d2">>}>>})>>},
                         {ConsumeSlot}, {0}, 1))

\* The values tried for a required setting: absent, the empty string, the
\* number 0, and a value that configures it.
RequiredValues(key) ==
    {PyNone, PyStr(""), PyInt(0),
     PyStr(IF key = "HS_CONSUME_FROM_SLOT" THEN ConsumeSlot ELSE "x")}

\* The settings dicts that give each key of keys one of its values (None
\* leaves the key out).
RECURSIVE SettingsOver(_)
SettingsOver(keys) ==
    IF keys = {} THEN {{}}
    ELSE LET key == CHOOSE k \in keys : TRUE
         IN  { IF v.t = "None" THEN rest ELSE rest \cup {<<key, v>>} :
                 v \in RequiredValues(key), rest \in SettingsOver(keys \ {key}) }

\* The queue of a frontier whose consumed slot holds one batch of one request.
OneBatch ==
    [slot \in AllSlots |-> IF slot = ConsumeSlot THEN InitialQueue(<<1>>) ELSE <<>>]

\* The state before construction: worker 1 has a crawler with one of the
\* settings dicts, and no middleware yet.
InitBefore(settings, environment) ==
    /\ active = {}
    /\ queue = OneBatch
    /\ next_id = 2
    /\ c = [w \in Workers |-> Idle]
    /\ scheduled = <<>>
    /\ env = environment
    /\ deltafetch = NoDeltaFetch
    /\ constraint = NoConstraint
    /\ guidpipeline = NoGUIDPipeline
    /\ \E st \in settings :
          crawler = [w \in Workers |-> IF w = 1 THEN Crawler(st) ELSE NoCrawler]

\* A crawler whose required settings are each absent, empty, 0 or set.
InitConstruct ==
    InitBefore(SettingsOver({RequiredSettings[k] : k \in 1..Len(RequiredSettings)}),
               Environment({<<Request(2, "GET", {<<"use_hcf", TRUE>>})>>},
                           {None}, {0, 1}, 1))

\* The required settings, each set.
ConfiguredSettings ==
    {<<RequiredSettings[k],
       PyStr(IF RequiredSettings[k] = "HS_CONSUME_FROM_SLOT" THEN ConsumeSlot ELSE "x")>> :
        k \in 1..Len(RequiredSettings)}

\* The values tried for HS_NUMBER_OF_SLOTS: absent, not a number, zero (as
\* an int and as a string) and slot counts from 1 up.
NumberOfSlotsValues ==
    {PyNone, PyStr("abc"), PyInt(0), PyStr("0"), PyInt(1), PyStr("3"), PyInt(7)}

\* The links a spider discovers: GET requests marked use_hcf for the
\* addresses 1..3.
Links == {Request(url, "GET", {<<"use_hcf", TRUE>>}) : url \in 1..3}

\* A configured crawler with one of the values of HS_NUMBER_OF_SLOTS, and a
\* spider without slot_callback that produces up to two results of up to two
\* links.
InitSlot ==
    InitBefore({ConfiguredSettings \cup
                   (IF v.t = "None" THEN {} ELSE {<<"HS_NUMBER_OF_SLOTS", v>>}) :
                       v \in NumberOfSlotsValues},
               Environment(SeqsUpTo(Links, 2), {None}, {0}, 2))

\* ----------------------------------------------------------------- actions

\* The engine opens the spider: process_start_requests(start_requests, spider)
\* returns a generator; none of its body has run.
process_start_requests(w) ==
    /\ w \in active
    /\ c[w].cs_pc = "open"
    /\ c[w].sr_pc = "none"
    /\ \E n \in env.seeds :
          c' = [c EXCEPT ![w] = [@ EXCEPT !.sr_pc = "created",
                                          !.start_requests = SeedRequests(n)]]
    /\ UNCHANGED <<queue, next_id, active, scheduled, env, crawler, lib_vars>>

\* The engine asks process_start_requests for its next request.  The first
\* next() runs lines 140-147: has_new_requests = False, then fclient.read,
\* which returns the slot's batches or raises.  (The spider defines neither
\* hs_frontier nor hs_consume_from_slot, so lines 140-144 keep the settings.)
process_start_requests_next(w) ==
    /\ w \in active
    /\ c[w].cs_pc = "open"
    /\ \/ /\ c[w].sr_pc = "created"
          /\ \E ok \in BOOLEAN :
                LET m == [c[w] EXCEPT !.has_new_requests = "False",
                                      !.reads = @ + 1]
                IN  c' = [c EXCEPT ![w] =
                            IF ok
                            THEN get_new_requests(
                                   [m EXCEPT !.resp = FrontierRead(queue, m.hs_consume_from_slot),
                                             !.b = 1, !.r = 0])
                            ELSE [m EXCEPT !.sr_pc = "raised"]]
       \/ /\ c[w].sr_pc = "in_batch"
          /\ c' = [c EXCEPT ![w] = get_new_requests(@)]
       \/ /\ c[w].sr_pc = "in_start_requests"
          /\ c' = [c EXCEPT ![w] = StartRequestsLoop(@)]
    /\ UNCHANGED <<queue, next_id, active, scheduled, env, crawler, lib_vars>>

\* The engine hands the result of a spider callback to process_spider_output,
\* which returns a generator (line 159 runs at its first next(); the spider's
\* attributes do not change in between).
process_spider_output(w) ==
    /\ w \in active
    /\ c[w].cs_pc = "open"
    /\ c[w].emitted # <<>>
    /\ c[w].so_pc \in {"none", "done", "raised"}
    /\ c[w].outputs < env.outputs
    /\ \E result \in env.results, cb \in env.callbacks :
          c' = [c EXCEPT ![w] = [@ EXCEPT !.so_pc = "created",
                                          !.so_error = None,
                                          !.slot_callback = cb,
                                          !.result = result,
                                          !.i = 0,
                                          !.returned = <<>>,
                                          !.added_before = Len(c[w].added),
                                          !.outputs = @ + 1]]
    /\ UNCHANGED <<queue, next_id, active, scheduled, env, crawler, lib_vars>>

\* The engine asks process_spider_output for its next element.
process_spider_output_next(w) ==
    /\ w \in active
    /\ c[w].cs_pc = "open"
    /\ c[w].so_pc \in {"created", "suspended"}
    /\ \E adds_ok \in 0..(Len(c[w].result) - c[w].i) :
          c' = [c EXCEPT ![w] =
                   SpiderOutputLoop([m |-> @, adds_ok |-> adds_ok]).m]
    /\ UNCHANGED <<queue, next_id, active, scheduled, env, crawler, lib_vars>>

\* The spider_closed signal: close_spider(spider, reason).
close_spider(w) ==
    /\ w \in active
    /\ c[w].cs_pc = "open"
    /\ c[w].sr_pc # "none"
    /\ \E reason \in Reasons, fail \in Failures :
          LET st == CloseSpiderBody([m |-> c[w], queue |-> queue, next_id |-> next_id,
                                     scheduled |-> scheduled], reason, fail)
          IN  /\ c' = [c EXCEPT ![w] = st.m]
              /\ queue' = st.queue
              /\ next_id' = st.next_id
              /\ scheduled' = st.scheduled
    /\ UNCHANGED <<active, env, crawler, lib_vars>>

\* The batch uploader of the frontier client (a thread of its own) writes
\* the oldest entry it holds to the frontier; it runs until the client is
\* closed.
batch_uploader(w) ==
    /\ w \in active
    /\ c[w].pending # <<>>
    /\ c[w].fclient_closed = 0
    /\ LET st == Upload([m |-> c[w], queue |-> queue, next_id |-> next_id], 1)
       IN  /\ c' = [c EXCEPT ![w] = st.m]
           /\ queue' = st.queue
           /\ next_id' = st.next_id
    /\ UNCHANGED <<active, scheduled, env, crawler, lib_vars>>

\* Lines 134-136: the engine builds the middleware, HcfMiddleware(crawler).
\* A middleware that raises NotConfigured is left out of the run.
from_crawler(w) ==
    /\ crawler[w].pc = "created"
    /\ \E dummy \in BOOLEAN :
          LET built == HcfMiddlewareInit(crawler[w], dummy)
          IN  /\ crawler' = [crawler EXCEPT ![w] = built.crawler]
              /\ c' = [c EXCEPT ![w] = built.m]
              /\ active' = IF built.crawler.pc = "built"
                           THEN active \cup {w} ELSE active
    /\ UNCHANGED <<queue, next_id, scheduled, env, lib_vars>>

Next ==
    \E w \in Workers :
        \/ process_start_requests(w)
        \/ process_start_requests_next(w)
        \/ process_spider_output(w)
        \/ process_spider_output_next(w)
        \/ batch_uploader(w)
        \/ close_spider(w)

Spec == Init /\ [][Next]_vars

SpecPull == InitPull /\ [][Next]_vars

SpecOutput == InitOutput /\ [][Next]_vars

SpecTwo == InitTwo /\ [][Next]_vars

\* A run from the construction of the middleware on.
NextFromCrawler == (\E w \in Workers : from_crawler(w)) \/ Next

SpecConstruct == InitConstruct /\ [][NextFromCrawler]_vars

SpecSlot == InitSlot /\ [][NextFromCrawler]_vars

\* ------------------------------------------------------------ chain of jobs

\* The first job of a spider whose jobs are enabled for 'finished', on the
\* old or on the new panel: the consumed slot holds up to MaxBatches batches
\* and the spider has up to MaxSeeds start_requests.  No link is added.
InitChain ==
    InitWith({1}, SeqsUpTo(1..2, MaxBatches),
             {st \in Settings(1..MaxLinks) :
                 st.enabled /\ st.on_reason = {"finished"} /\ ~st.dummy},
             Environment({<<>>}, {None}, 0..MaxSeeds, 0))

\* The engine closes a spider whose start requests are exhausted (or whose
\* generator raised) and that has nothing left to do:
\* close_spider(spider, 'finished').
spider_finished(w) ==
    /\ w \in active
    /\ c[w].cs_pc = "open"
    /\ c[w].sr_pc \in {"done", "raised"}
    /\ \E fail \in Failures :
          LET st == CloseSpiderBody([m |-> c[w], queue |-> queue, next_id |-> next_id,
                                     scheduled |-> scheduled], "finished", fail)
          IN  /\ c' = [c EXCEPT ![w] = st.m]
              /\ queue' = st.queue
              /\ next_id' = st.next_id
              /\ scheduled' = st.scheduled
    /\ UNCHANGED <<active, env, crawler, lib_vars>>

\* The job _start_job requested runs once the spider is closed: a new
\* process builds the middleware from the same settings, and the arguments
\* of the job are attributes of its spider, so the spider carries 'dummy'
\* when the job was requested with it (lines 130-131) and does not when it
\* was requested by the new panel's start_job (lines 127-128).
job_started(w) ==
    /\ w \in active
    /\ c[w].cs_pc \in {"returned", "raised"}
    /\ scheduled # <<>>
    /\ LET built == HcfMiddlewareInit(Crawler(crawler[w].settings), Head(scheduled).dummy)
       IN  /\ c' = [c EXCEPT ![w] = built.m]
           /\ crawler' = [crawler EXCEPT ![w] = built.crawler]
    /\ scheduled' = Tail(scheduled)
    /\ UNCHANGED <<queue, next_id, active, env, lib_vars>>

NextChain ==
    \E w \in Workers :
        \/ process_start_requests(w)
        \/ process_start_requests_next(w)
        \/ spider_finished(w)
        \/ job_started(w)

\* The engine goes on asking for start requests and closes a spider that is
\* done, and a job that was requested is run.
SpecChain == InitChain /\ [][NextChain]_vars /\ WF_vars(NextChain)

\* -------------------------------------------------------------- DeltaFetch

\* scrapy.utils.request.request_fingerprint(request): a digest of the
\* request, one string for each address.
request_fingerprint(request) ==
    CASE request.url = 1 -> "fp1" [] request.url = 2 -> "fp2" [] OTHER -> "fp0"

\* Mutant: the key is the fingerprint whatever the request's meta holds.
get_key_fingerprint_only(request) == request_fingerprint(request)

\* Lines 80-81 of deltafetch.py: meta's deltafetch_key when it is there and
\* not empty, the request's fingerprint otherwise.
get_key(request) ==
    LET key == DictGet(request.meta, "deltafetch_key", "")
    IN  IF key # "" THEN key ELSE request_fingerprint(request)

\* The instance DeltaFetch.from_crawler builds (lines 39-55) for a spider
\* with or without the attribute deltafetch_reset, with the keys the db file
\* of the spider holds on disk, the db handle (self.db is not set before
\* spider_opened) and the position of the process_spider_output generator.
DeltaFetch(reset, spider_reset, file) ==
    [ pc           |-> "built",
      reset        |-> reset,         \* DELTAFETCH_RESET
      spider_reset |-> spider_reset,  \* getattr(spider, 'deltafetch_reset', False)
      file         |-> file,          \* the keys in <dir>/<spider.name>.db
      db           |-> "unset",       \* "unset", "open" or "closed"
      keys         |-> {},            \* the keys of the open db
      cycle        |-> 0,             \* spider_opened calls so far
      outputs      |-> 0,             \* process_spider_output calls of the cycle
      stored       |-> {},            \* <<cycle, key>> of every db[key] = ...
      so_pc        |-> "none",
      response     |-> Request(0, "GET", {}),   \* response.request
      result       |-> <<>>,
      i            |-> 0,
      returned     |-> <<>> ]

\* Mutant: only the DELTAFETCH_RESET setting resets the db.
DbFlagSettingOnly(df) == IF df.reset THEN "n" ELSE "c"

\* Lines 61-62: flag = 'n' if reset else 'c'.
DbFlag(df) == IF df.reset \/ df.spider_reset THEN "n" ELSE "c"

\* Line 63, dbmodule.open(dbpath, flag): 'n' always creates a new, empty db;
\* 'c' opens the db of the file, creating it if it does not exist.
DbOpen(file, flag) == IF flag = "n" THEN {} ELSE file

RECURSIVE DeltaFetchLoop(_)
\* Lines 68-78: process_spider_output runs to its next yield, to its end, or
\* to the exception of a db that is not open.
DeltaFetchLoop(df) ==
    IF df.i >= Len(df.result) THEN [df EXCEPT !.so_pc = "done"]
    ELSE LET r == df.result[df.i + 1]
             taken == [df EXCEPT !.i = df.i + 1]
             yield == [taken EXCEPT !.so_pc = "suspended",
                                    !.returned = Append(df.returned, r)]
         IN  IF r.kind = "request"
             THEN IF df.db # "open" THEN [taken EXCEPT !.so_pc = "raised"]
                  ELSE IF get_key(r) \in df.keys THEN DeltaFetchLoop(taken)
                  ELSE yield
             ELSE IF r.kind = "item"
             THEN IF df.db # "open" THEN [taken EXCEPT !.so_pc = "raised"]
                  ELSE [yield EXCEPT
                          !.keys = df.keys \cup {get_key(df.response)},
                          !.stored = df.stored \cup {<<df.cycle, get_key(df.response)>>}]
             ELSE yield

\* The requests whose responses are processed.
DeltaResponses ==
    { Request(1, "GET", {}), Request(3, "GET", {<<"deltafetch_key", "key1">>}),
      Request(2, "GET", {}) }

\* Lines 57-63: the db of the spider is opened, emptied when a reset is asked.
DeltaFetch_spider_opened ==
    /\ deltafetch.pc = "built"
    /\ deltafetch.db # "open"
    /\ deltafetch.cycle < MaxCycles
    /\ deltafetch' = [deltafetch EXCEPT
          !.db = "open",
          !.keys = DbOpen(deltafetch.file, DbFlag(deltafetch)),
          !.file = DbOpen(deltafetch.file, DbFlag(deltafetch)),
          !.cycle = @ + 1,
          !.outputs = 0]
    /\ UNCHANGED <<hcf_vars, constraint, guidpipeline>>

\* The engine hands a response and the result of its callback to
\* process_spider_output, which returns a generator.
DeltaFetch_process_spider_output ==
    /\ deltafetch.pc = "built"
    /\ deltafetch.cycle >= 1
    /\ deltafetch.so_pc \in {"none", "done", "raised"}
    /\ deltafetch.outputs < env.outputs
    /\ \E result \in env.results, response \in DeltaResponses :
          deltafetch' = [deltafetch EXCEPT
              !.so_pc = "created", !.result = result, !.response = response,
              !.i = 0, !.returned = <<>>, !.outputs = @ + 1]
    /\ UNCHANGED <<hcf_vars, constraint, guidpipeline>>

\* The engine asks the generator for its next element.
DeltaFetch_process_spider_output_next ==
    /\ deltafetch.pc = "built"
    /\ deltafetch.so_pc \in {"created", "suspended"}
    /\ deltafetch' = DeltaFetchLoop(deltafetch)
    /\ UNCHANGED <<hcf_vars, constraint, guidpipeline>>

\* Lines 65-66: self.db.close(); the keys are on disk afterwards.
DeltaFetch_spider_closed ==
    /\ deltafetch.pc = "built"
    /\ deltafetch.db = "open"
    /\ deltafetch' = [deltafetch EXCEPT !.db = "closed", !.file = deltafetch.keys]
    /\ UNCHANGED <<hcf_vars, constraint, guidpipeline>>

NextDeltaFetch ==
    \/ DeltaFetch_spider_opened
    \/ DeltaFetch_process_spider_output
    \/ DeltaFetch_process_spider_output_next
    \/ DeltaFetch_spider_closed

\* What a callback may produce for DeltaFetch: requests with and without a
\* deltafetch_key, an item and an object that is neither.
DeltaPool ==
    { Request(1, "GET", {<<"deltafetch_key", "key1">>}),
      Request(1, "GET", {}),
      Request(2, "GET", {<<"deltafetch_key", "">>}),
      ScrapedItem(1),
      OtherObject(1) }

\* The DeltaFetch middleware of a spider, with or without each reset, whose
\* db file is empty or holds a key of an earlier crawl; the HCF middleware
\* takes no part.
InitDeltaFetch ==
    /\ active = {}
    /\ queue = [slot \in AllSlots |-> <<>>]
    /\ next_id = 1
    /\ c = [w \in Workers |-> Idle]
    /\ scheduled = <<>>
    /\ crawler = [w \in Workers |-> NoCrawler]
    /\ env = Environment(SeqsUpTo(DeltaPool, 2), {None}, {0}, 1)
    /\ constraint = NoConstraint
    /\ guidpipeline = NoGUIDPipeline
    /\ \E reset \in BOOLEAN, spider_reset \in BOOLEAN, file \in {{}, {"key1"}, {"fp2"}} :
          deltafetch = DeltaFetch(reset, spider_reset, file)

SpecDeltaFetch == InitDeltaFetch /\ [][NextDeltaFetch]_vars

\* -------------------------------------------------------------- constraints

\* constraints/__init__.py lines 38-39: RequiredFields(*fields), not called
\* yet, with the item it is going to be called with.
RequiredFields(fields, item) ==
    [pc |-> "created", fields |-> fields, item |-> item, error |-> None, f |-> None]

\* Lines 41-44: for f in self.fields: v = item.get(f); assert v.  The first
\* field whose value is false in Python's sense (or that the item does not
\* hold: item.get gives None) raises AssertionError.
RequiredFieldsCall(rf) ==
    LET failing == {k \in 1..Len(rf.fields) :
                       ~Truthy(DictGet(rf.item, rf.fields[k], PyNone))}
    IN  IF failing = {} THEN [rf EXCEPT !.pc = "returned"]
        ELSE [rf EXCEPT !.pc = "raised", !.error = "AssertionError",
                        !.f = rf.fields[CHOOSE k \in failing :
                                            \A k2 \in failing : k <= k2]]

\* The condition is called with the item.
RequiredFields_call ==
    /\ constraint.pc = "created"
    /\ constraint' = RequiredFieldsCall(constraint)
    /\ UNCHANGED <<hcf_vars, deltafetch, guidpipeline>>

NextConstraint == RequiredFields_call

\* The item of test_constraints.py (lines 8-9):
\* {'str': 'bar', 'list': ['one'], 'bool': False, 'none': None}.
TestItem ==
    { <<"str", PyStr("bar")>>, <<"list", PyList({"one"})>>,
      <<"bool", PyBool(FALSE)>>, <<"none", PyNone>> }

\* The field names asked for: those of the test item and one no item holds.
FieldNames == {"str", "list", "bool", "none", "xxx"}

\* RequiredFields of up to two fields and an item that holds some of the
\* fields of the test item; the middlewares take no part.
InitConstraint ==
    /\ active = {}
    /\ queue = [slot \in AllSlots |-> <<>>]
    /\ next_id = 1
    /\ c = [w \in Workers |-> Idle]
    /\ scheduled = <<>>
    /\ crawler = [w \in Workers |-> NoCrawler]
    /\ env = Environment({<<>>}, {None}, {0}, 0)
    /\ deltafetch = NoDeltaFetch
    /\ \E fields \in SeqsUpTo(FieldNames, 2) \ {<<>>}, item \in SUBSET TestItem :
          constraint = RequiredFields(fields, item)
    /\ guidpipeline = NoGUIDPipeline

SpecConstraint == InitConstraint /\ [][NextConstraint]_vars

\* ------------------------------------------------------------ GUIDPipeline

\* A str is the sequence of its characters, each a number from 1; FieldNone
\* stands for None (no character is 0).
FieldNone == <<0>>

\* spider.name.
SpiderName == <<9>>

\* Lines 7-20: hash_values(*values), the md5 of the values fed one after the
\* other, that is of their concatenation; the digest is modelled by the
\* string hashed (two different strings have different digests).
hash_values(values) == Concat(values)

\* The item_fields of a subclass: item type -> the fields that make its guid.
\* ("Other" is a type the pipeline has no fields for.)
item_fields == {<<"Product", <<"id", "name">> >>, <<"Review", <<"id">> >>}

\* An item: its type and its fields (a dict); item.get(field) is None for a
\* field the item does not hold.
GuidItem(type, fields) == [type |-> type, fields |-> fields]

\* Lines 54-62: generate_guid(item, spider): None when a field of the item's
\* type is None, the hash of the spider's name and the field values
\* otherwise.
generate_guid(item) ==
    LET names == DictGet(item_fields, item.type, <<>>)
        values == [k \in 1..Len(names) |-> DictGet(item.fields, names[k], FieldNone)]
    IN  IF \E k \in 1..Len(values) : values[k] = FieldNone THEN FieldNone
        ELSE hash_values(<<SpiderName>> \o values)

\* Lines 27-35: the pipeline built by from_crawler, with the log of its last
\* process_item call.
GUIDPipeline ==
    [pc |-> "created", guids |-> {}, calls |-> 0,
     item |-> GuidItem("Other", {}), outcome |-> None,
     returned |-> <<>>]          \* the guids of the items returned, in order

\* Mutant: the guid of an item that is returned is not remembered.
GUIDPipelineProcessItemForgets(p, item) ==
    LET guid == generate_guid(item)
        called == [p EXCEPT !.calls = @ + 1]
    IN  IF item.type \notin DictKeys(item_fields)
        THEN [called EXCEPT !.item = item, !.outcome = "returned"]
        ELSE LET marked == [item EXCEPT !.fields = DictUpdate(@, {<<"guid", guid>>})]
             IN  IF guid = FieldNone \/ guid \in p.guids
                 THEN [called EXCEPT !.item = marked, !.outcome = "DropItem"]
                 ELSE [called EXCEPT !.item = marked, !.outcome = "returned",
                                     !.returned = Append(@, guid)]

\* Lines 43-52: process_item(item, spider).  The item of a registered type
\* gets its 'guid' field first; it is dropped when the guid is None or was
\* seen, and remembered and returned otherwise.
GUIDPipelineProcessItem(p, item) ==
    LET guid == generate_guid(item)
        called == [p EXCEPT !.calls = @ + 1]
    IN  IF item.type \notin DictKeys(item_fields)
        THEN [called EXCEPT !.item = item, !.outcome = "returned"]
        ELSE LET marked == [item EXCEPT !.fields = DictUpdate(@, {<<"guid", guid>>})]
             IN  IF guid = FieldNone \/ guid \in p.guids
                 THEN [called EXCEPT !.item = marked, !.outcome = "DropItem"]
                 ELSE [called EXCEPT !.item = marked, !.outcome = "returned",
                                     !.guids = @ \cup {guid},
                                     !.returned = Append(@, guid)]

\* The field values tried: None, '', 'a', 'b' and 'ab'.
FieldValues == {FieldNone, <<>>, <<1>>, <<2>>, <<1, 2>>}

\* The items a spider may scrape.
GuidItems ==
    {GuidItem(type, {<<"id", id>>, <<"name", name>>}) :
        type \in {"Product", "Review", "Other"}, id \in FieldValues, name \in FieldValues}

\* Lines 37-38: spider_opened.
GUIDPipeline_spider_opened ==
    /\ guidpipeline.pc = "created"
    /\ guidpipeline' = [guidpipeline EXCEPT !.pc = "open", !.guids = {}]
    /\ UNCHANGED <<hcf_vars, deltafetch, constraint>>

\* Lines 43-52: the engine hands a scraped item to process_item.
GUIDPipeline_process_item ==
    /\ guidpipeline.pc = "open"
    /\ guidpipeline.calls < MaxItems
    /\ \E item \in GuidItems :
          guidpipeline' = GUIDPipelineProcessItem(guidpipeline, item)
    /\ UNCHANGED <<hcf_vars, deltafetch, constraint>>

\* Lines 40-41: spider_closed deletes the spider's set.
GUIDPipeline_spider_closed ==
    /\ guidpipeline.pc = "open"
    /\ guidpipeline' = [guidpipeline EXCEPT !.pc = "closed", !.guids = {}]
    /\ UNCHANGED <<hcf_vars, deltafetch, constraint>>

NextGUIDPipeline ==
    \/ GUIDPipeline_spider_opened
    \/ GUIDPipeline_process_item
    \/ GUIDPipeline_spider_closed

InitGUIDPipeline ==
    /\ active = {}
    /\ queue = [slot \in AllSlots |-> <<>>]
    /\ next_id = 1
    /\ c = [w \in Workers |-> Idle]
    /\ scheduled = <<>>
    /\ crawler = [w \in Workers |-> NoCrawler]
    /\ env = Environment({<<>>}, {None}, {0}, 0)
    /\ deltafetch = NoDeltaFetch
    /\ constraint = NoConstraint
    /\ guidpipeline = GUIDPipeline

SpecGUIDPipeline == InitGUIDPipeline /\ [][NextGUIDPipeline]_vars

\* ------------------------------------------------------------------ claims

Closed(m) == m.cs_pc # "open"

\* The batches of the read response whose loop over the requests has ended:
\* those before the batch being iterated, and that batch too once
\* _get_new_requests has returned (it returns from the batch that reached
\* HS_MAX_LINKS, or after the last batch).
BatchesRead(m) ==
    {k \in 1..Len(m.resp) :
        k < m.b \/ (k = m.b /\ m.sr_pc \in {"in_start_requests", "done"})}

\* The identifiers of the first n batches of the read response.
ResponseIds(m, n) == [k \in 1..n |-> m.resp[k].id]

\* C1: close_spider issues the delete request exactly when the reason is
\* 'finished'; no delete request is issued before close_spider; and after a
\* close with another reason batch_ids still holds the identifier of every
\* batch read, and every batch of the read response is still in the frontier.
C1_DeleteOnlyWhenFinished ==
    \A w \in active :
        LET m == c[w]
        IN  /\ ~Closed(m) => m.deletes = <<>>
            /\ Closed(m) => /\ Len(m.deletes) <= 1
                            /\ (Len(m.deletes) = 1) <=> (m.reason = "finished")
            /\ (Closed(m) /\ m.reason # "finished") =>
                  /\ m.batch_ids = ResponseIds(m, Cardinality(BatchesRead(m)))
                  /\ \A k \in 1..Len(m.resp) :
                        m.resp[k].id \in QueueIds(queue, m.hs_consume_from_slot)

\* A run that read two batches was closed with reason 'shutdown'.
C1_Witness ==
    \E w \in active :
        /\ Closed(c[w]) /\ c[w].reason = "shutdown"
        /\ Len(c[w].batch_ids) = 2

\* C2: whatever the reason and whatever the outcome of the remote calls made
\* by close_spider, fclient.close() has been invoked exactly once when
\* close_spider is left.
C2_ClosedExactlyOnce ==
    \A w \in active : Closed(c[w]) => c[w].fclient_closed = 1

\* C3 as claimed: when close_spider returns, a job has been requested exactly
\* when jobs are enabled, the reason is a job reason, and the run had requests
\* from the HCF or the spider carries 'dummy' (it is not the first job).
C3_JobUnlessFirstRun ==
    \A w \in active :
        LET m == c[w]
        IN  m.cs_pc = "returned" =>
              ((m.jobs = 1) <=>
                  /\ m.hs_start_job_enabled
                  /\ m.reason \in m.hs_start_job_on_reason
                  /\ (m.has_new_requests = "True" \/ m.dummy))

\* C3 amended: a job is requested exactly when close_spider reaches line 199
\* (no remote call of the handler raised), jobs are enabled, the reason is a
\* job reason, and has_new_requests is True, or it is False and the spider
\* carries no 'dummy' (this is the first job).  At most one job is requested.
C3_JobIfRequestsOrFirstRun ==
    \A w \in active :
        LET m == c[w]
        IN  /\ m.jobs <= 1
            /\ ~Closed(m) => m.jobs = 0
            /\ Closed(m) =>
                 ((m.jobs = 1) <=>
                    /\ m.cs_pc = "returned"
                    /\ m.hs_start_job_enabled
                    /\ m.reason \in m.hs_start_job_on_reason
                    /\ \/ m.has_new_requests = "True"
                       \/ m.has_new_requests = "False" /\ ~m.dummy)

\* A first job that got nothing from the HCF requested its successor.
C3_Witness ==
    \E w \in active :
        /\ c[w].cs_pc = "returned" /\ c[w].jobs = 1
        /\ c[w].has_new_requests = "False" /\ ~c[w].dummy
        /\ Len(scheduled) = 1

\* The pull of process_start_requests has been consumed to its end.
PullConsumed(m) == m.sr_pc \in {"in_start_requests", "done"}

IsHcfLink(item) ==
    /\ item.kind = "request"
    /\ <<"use_hcf", TRUE>> \in item.meta
    /\ item.method = "GET"

\* The elements of the current result process_spider_output has taken.
Taken(m) == SubSeq(m.result, 1, m.i)

\* The fclient.add calls that returned during the current result.
AddedNow(m) == SubSeq(m.added, m.added_before + 1, Len(m.added))

\* The address of an entry sent with fclient.add.
EntryUrl(added) == DictGet(added[2], "fp", None)

\* The entry <<slot, fp>> is held by the frontier.
InFrontier(q, added) ==
    \E j \in 1..Len(q[added[1]]) :
        q[added[1]][j].requests[1][1] = EntryUrl(added)

ResponseRequests(resp) == Concat([k \in 1..Len(resp) |-> resp[k].requests])

\* The requests of the first n batches of a read response.
PrefixRequests(resp, n) == ResponseRequests(SubSeq(resp, 1, n))

\* The shortest prefix of the batches that holds at least cap requests: its
\* length, the number of batches when they hold fewer.
PullPrefix(resp, cap) ==
    LET enough == {n \in 0..Len(resp) : Len(PrefixRequests(resp, n)) >= cap}
    IN  IF enough = {} THEN Len(resp)
        ELSE CHOOSE n \in enough : \A n2 \in enough : n <= n2

\* What process_start_requests has yielded that came from the frontier, and
\* what came from the start_requests.
FrontierEmitted(m) ==
    SelectSeq(m.emitted, LAMBDA x : "hcf_params" \in DictKeys(x.meta))

SeedsEmitted(m) ==
    SelectSeq(m.emitted, LAMBDA x : "hcf_params" \notin DictKeys(x.meta))

Urls(requests) == [k \in 1..Len(requests) |-> requests[k].url]

Fingerprints(entries) == [k \in 1..Len(entries) |-> entries[k][1]]

\* C6: when the read response holds a request, process_start_requests run to
\* its end has yielded the frontier's requests in read order and none of the
\* start_requests, and has_new_requests is True; and in no state has it
\* yielded both requests of the frontier and start_requests.
C6_FrontierSuppressesSeeds ==
    \A w \in active :
        LET m == c[w]
        IN  /\ (m.sr_pc = "done" /\ ResponseRequests(m.resp) # <<>>) =>
                 /\ m.has_new_requests = "True"
                 /\ SeedsEmitted(m) = <<>>
                 /\ Urls(m.emitted) = Fingerprints(
                        PrefixRequests(m.resp, PullPrefix(m.resp, m.hs_max_links)))
            /\ FrontierEmitted(m) = <<>> \/ SeedsEmitted(m) = <<>>

\* A first job with start_requests got requests from the frontier and ended
\* its start requests.
C6_Witness ==
    \E w \in active :
        /\ c[w].sr_pc = "done" /\ c[w].has_new_requests = "True"
        /\ ~c[w].dummy /\ Len(c[w].start_requests) = 2
        /\ Len(c[w].emitted) >= 2

\* C7 as claimed: when the read returns no batch, process_start_requests run
\* to its end has yielded exactly the start_requests, in every job, and
\* has_new_requests is False.
C7_SeedsInEveryJob ==
    \A w \in active :
        LET m == c[w]
        IN  (m.sr_pc = "done" /\ m.reads = 1 /\ m.resp = <<>>) =>
               (m.emitted = m.start_requests /\ m.has_new_requests = "False")

\* C7 amended: when the read returns no batch, has_new_requests is False and
\* process_start_requests run to its end has yielded exactly the
\* start_requests, in order, in a first job (no 'dummy'), and nothing in a
\* job that carries 'dummy'.
C7_SeedsInFirstJobOnly ==
    \A w \in active :
        LET m == c[w]
        IN  (m.sr_pc = "done" /\ m.reads = 1 /\ m.resp = <<>>) =>
               /\ m.has_new_requests = "False"
               /\ m.emitted = IF m.dummy THEN <<>> ELSE m.start_requests

\* A first job found the slot empty and yielded its two start_requests.
C7_Witness ==
    \E w \in active :
        /\ c[w].sr_pc = "done" /\ c[w].reads = 1 /\ c[w].resp = <<>>
        /\ ~c[w].dummy /\ Len(c[w].emitted) = 2
        /\ c[w].emitted = c[w].start_requests

\* C8: for HS_MAX_LINKS >= 1, a pull consumed to its end has yielded the
\* requests of the shortest prefix of batches that holds at least
\* HS_MAX_LINKS requests (of all batches when they hold fewer), in read
\* order: whole batches only, and never fewer than
\* min(HS_MAX_LINKS, requests available).
C8_PullWholeBatchesUpToMaxLinks ==
    \A w \in active :
        LET m == c[w]
            total == Len(ResponseRequests(m.resp))
            want == PrefixRequests(m.resp, PullPrefix(m.resp, m.hs_max_links))
            got == FrontierEmitted(m)
        IN  (PullConsumed(m) /\ m.hs_max_links >= 1) =>
               /\ Urls(got) = Fingerprints(want)
               /\ Len(got) >= IF m.hs_max_links < total THEN m.hs_max_links ELSE total
               /\ \E n \in 0..Len(m.resp) : Len(got) = Len(PrefixRequests(m.resp, n))

\* A pull went past HS_MAX_LINKS to the end of the second batch.
C8_Witness ==
    \E w \in active :
        /\ PullConsumed(c[w])
        /\ Len(c[w].resp) = 2
        /\ Len(c[w].emitted) > c[w].hs_max_links
        /\ Len(c[w].emitted) = Len(ResponseRequests(c[w].resp))
        /\ Len(c[w].batch_ids) = 2

\* The delete call of a close with 'finished' raised (fclient.close, which
\* follows it, was not reached).
DeleteRaised(m) == m.reason = "finished" /\ m.cs_pc = "raised" /\ m.fclient_closed = 0

\* C9: a close with 'finished' sends one delete request carrying the whole
\* of batch_ids; when the call returns batch_ids is empty afterwards and the
\* frontier holds none of the batches, and when it raises batch_ids and the
\* frontier are what they were before the call.
C9_LedgerAfterDelete ==
    [][ \A w \in active :
          (c[w].cs_pc = "open" /\ c'[w].cs_pc # "open" /\ c'[w].reason = "finished") =>
             /\ c'[w].deletes = Append(c[w].deletes, c[w].batch_ids)
             /\ IF DeleteRaised(c'[w])
                THEN c'[w].batch_ids = c[w].batch_ids /\ queue' = queue
                ELSE /\ c'[w].batch_ids = <<>>
                     /\ \A k \in 1..Len(c[w].batch_ids) :
                           c[w].batch_ids[k] \notin
                               QueueIds(queue', c[w].hs_consume_from_slot)
      ]_vars

\* The delete request for two batches raised and batch_ids still holds them.
C9_Witness ==
    \E w \in active :
        /\ DeleteRaised(c[w])
        /\ Len(c[w].batch_ids) = 2
        /\ c[w].deletes = <<c[w].batch_ids>>

\* C10: when process_spider_output has run through a result, the entries it
\* added are the result's requests marked use_hcf with method GET, in order,
\* and what it yielded is every other element, unchanged and in order: each
\* element is either added or yielded, never both.
C10_SplitOfResult ==
    \A w \in active :
        LET m == c[w]
        IN  m.so_pc = "done" =>
              /\ m.returned = SelectSeq(m.result, LAMBDA x : ~IsHcfLink(x))
              /\ [k \in 1..Len(AddedNow(m)) |-> EntryUrl(AddedNow(m)[k])]
                    = Urls(SelectSeq(m.result, IsHcfLink))
              /\ Len(m.returned) + Len(AddedNow(m)) = Len(m.result)

\* A result with a GET link and a POST request marked use_hcf was run
\* through: the link was added and the POST request yielded.
C10_Witness ==
    \E w \in active :
        /\ c[w].so_pc = "done"
        /\ Len(c[w].result) = 2
        /\ Len(AddedNow(c[w])) = 1
        /\ Len(c[w].returned) = 1 /\ c[w].returned[1].method = "POST"

\* Batch j of the read response has had all of its requests yielded by
\* process_start_requests: the loop is past it, or has yielded its last
\* request; and each of its addresses is among what was yielded.
FullyYielded(m, j) ==
    /\ j < m.b \/ (j = m.b /\ m.r = Len(m.resp[j].requests))
    /\ \A e \in 1..Len(m.resp[j].requests) :
          \E x \in 1..Len(m.emitted) : m.emitted[x].url = m.resp[j].requests[e][1]

\* The batch was yielded in full by a worker that was then closed with
\* reason 'finished'.
HandedOverAndFinished(id) ==
    \E w \in active :
        /\ Closed(c[w]) /\ c[w].reason = "finished"
        /\ \E j \in 1..Len(c[w].resp) :
              c[w].resp[j].id = id /\ FullyYielded(c[w], j)

\* Every identifier of batch_ids names a batch the slot no longer holds.
StaleLedger(m, q) ==
    /\ m.batch_ids # <<>>
    /\ \A k \in 1..Len(m.batch_ids) :
          m.batch_ids[k] \notin QueueIds(q, m.hs_consume_from_slot)

\* C11: with two workers on one slot, every batch the frontier ever held
\* (the identifiers below next_id) is still held or was yielded in full by a
\* worker that was then closed with 'finished'; and a close whose delete
\* request carries only identifiers the other worker already deleted sends
\* the request and removes nothing: every slot still begins with the batches
\* it held.
C11_NoBatchLost ==
    /\ [](\A id \in 1..(next_id - 1) :
             \/ \E slot \in AllSlots : id \in QueueIds(queue, slot)
             \/ HandedOverAndFinished(id))
    /\ [][ \A w \in active :
             ( /\ c[w].cs_pc = "open" /\ c'[w].cs_pc # "open"
               /\ c'[w].reason = "finished"
               /\ StaleLedger(c[w], queue) ) =>
                  /\ c'[w].deletes = <<c[w].batch_ids>>
                  /\ \A slot \in AllSlots :
                        /\ Len(queue'[slot]) >= Len(queue[slot])
                        /\ SubSeq(queue'[slot], 1, Len(queue[slot])) = queue[slot]
         ]_vars

\* Both workers yielded the same batches and were closed with 'finished';
\* both delete requests returned, the second carrying identifiers the first
\* had deleted.
C11_Witness ==
    \E w1, w2 \in active :
        /\ w1 # w2
        /\ c[w1].cs_pc = "returned" /\ c[w2].cs_pc = "returned"
        /\ c[w1].reason = "finished" /\ c[w2].reason = "finished"
        /\ c[w1].deletes = c[w2].deletes
        /\ Len(c[w1].deletes) = 1 /\ Len(c[w1].deletes[1]) = 2
        /\ \A k \in 1..2 : c[w1].deletes[1][k] \notin QueueIds(queue, ConsumeSlot)

\* The required settings the dict does not hold.
AbsentSettings(settings) ==
    {RequiredSettings[k] : k \in 1..Len(RequiredSettings)} \ DictKeys(settings)

\* The required settings the dict holds with an empty value ('' or 0).
EmptySettings(settings) ==
    {p[1] : p \in {q \in settings : q[2] \in {PyStr(""), PyInt(0)}}}
        \cap {RequiredSettings[k] : k \in 1..Len(RequiredSettings)}

\* The construction of the worker's middleware was attempted.
Constructed(cr) == cr.pc \in {"built", "raised"}

\* C12 as claimed: the construction raises NotConfigured exactly when a
\* required setting is absent.
C12_RaisesIffAbsent ==
    \A w \in Workers :
        Constructed(crawler[w]) =>
            ((crawler[w].pc = "raised") <=> (AbsentSettings(crawler[w].settings) # {}))

\* C12 amended: the construction raises NotConfigured exactly when a required
\* setting is absent or empty ('' or 0), naming the first such setting in
\* the order HS_AUTH, HS_PROJECTID, HS_FRONTIER, HS_CONSUME_FROM_SLOT; when it
\* raises no client has been opened, no handler is connected and the
\* middleware takes no part in the run; otherwise the clients are open and
\* close_spider is connected to spider_closed.
C12_RaisesIffAbsentOrEmpty ==
    \A w \in Workers :
        LET cr == crawler[w]
            refused == AbsentSettings(cr.settings) \cup EmptySettings(cr.settings)
        IN  Constructed(cr) =>
              /\ (cr.pc = "raised") <=> (refused # {})
              /\ cr.pc = "raised" =>
                    /\ cr.error.t = "NotConfigured"
                    /\ cr.error.s \in refused
                    /\ \A k \in 1..Len(RequiredSettings) :
                          RequiredSettings[k] \in refused =>
                             \E k2 \in 1..k : RequiredSettings[k2] = cr.error.s
                    /\ cr.clients = {} /\ cr.signals = {}
                    /\ w \notin active /\ c[w].reads = 0
              /\ cr.pc = "built" =>
                    /\ "HubstorageClient" \in cr.clients
                    /\ cr.signals = {<<"spider_closed", "close_spider">>}
                    /\ w \in active

\* Every required setting is present, HS_CONSUME_FROM_SLOT with the value 0,
\* and the construction raised NotConfigured before opening anything.
C12_Witness ==
    \E w \in Workers :
        /\ crawler[w].pc = "raised"
        /\ AbsentSettings(crawler[w].settings) = {}
        /\ <<"HS_CONSUME_FROM_SLOT", PyInt(0)>> \in crawler[w].settings
        /\ crawler[w].error = NotConfigured("HS_CONSUME_FROM_SLOT")
        /\ crawler[w].clients = {}

\* int(hashlib.md5("http://a.com/<url>").hexdigest(), 16) % n for the
\* addresses 1..3 and n = 1..8, computed with Python.
Md5Mod(url, n) ==
    CASE url = 1 -> <<0, 0, 0, 0, 2, 0, 1, 0>>[n]
      [] url = 2 -> <<0, 1, 2, 1, 1, 5, 2, 5>>[n]
      [] url = 3 -> <<0, 1, 0, 3, 2, 3, 6, 7>>[n]

\* The slot count a settings dict configures: the default when
\* HS_NUMBER_OF_SLOTS is absent or not a number.
ConfiguredSlots(settings) ==
    LET v == DictGet(settings, "HS_NUMBER_OF_SLOTS", PyNone)
    IN  CASE v = PyInt(0) \/ v = PyStr("0") -> 0
          [] v = PyInt(1) -> 1
          [] v = PyStr("3") -> 3
          [] v = PyInt(7) -> 7
          [] OTHER -> 8

\* C13: for a slot count N >= 1 every link is added to the slot named by the
\* decimal string of md5(address) mod N, a number in 0..N-1, and two links
\* with the same address are added to the same slot whatever batch_ids,
\* new_links_count and the positions of the generators were at the time.
C13_SlotIsHashModN ==
    \A w \in active :
        LET m == c[w]
            N == ConfiguredSlots(crawler[w].settings)
        IN  N >= 1 =>
              /\ m.hs_number_of_slots = N
              /\ \A k \in 1..Len(m.added) :
                    /\ m.added[k][1] = SlotName(Md5Mod(EntryUrl(m.added[k]), N))
                    /\ m.added[k][1] \in {SlotName(j) : j \in 0..(N - 1)}
              /\ \A j, k \in 1..Len(m.added) :
                    EntryUrl(m.added[j]) = EntryUrl(m.added[k]) =>
                        m.added[j][1] = m.added[k][1]

\* With three slots the address 2 was added twice, both times to slot "2":
\* once with the ledger empty and no link counted, once with a batch in the
\* ledger and a link counted.
C13_Witness ==
    \E w \in active :
        /\ c[w].hs_number_of_slots = 3
        /\ Len(c[w].added) = 2
        /\ c[w].added[1] = <<"2", {<<"fp", 2>>}>> /\ c[w].added[2] = c[w].added[1]
        /\ c[w].outputs = 2 /\ c[w].added_before = 1
        /\ c[w].batch_ids # <<>>
        /\ <<"2", 2>> \in c[w].new_links_count

\* C14: for every slot count the middleware can be built with, the default
\* slot function gives every link a slot: it never raises, and every link is
\* added to one of the slots.
C14_SlotFunctionTotal ==
    \A w \in active :
        /\ c[w].so_error # ZeroDivisionError
        /\ \A k \in 1..Len(c[w].added) : c[w].added[k][1] \in AllSlots

\* meta['hcf_params']['qdata'] of a request, None when it has none.
QData(request) == DictGet(DictGet(request.meta, "hcf_params", {}), "qdata", None)

\* The links process_spider_output of a worker has taken and added.
Recorded(m) ==
    {m.result[k] : k \in {j \in 1..m.i : IsHcfLink(m.result[j])
                                          /\ ~(j = m.i /\ m.so_pc = "raised")}}

\* The request was yielded from an entry added during the run: the entries
\* the frontier held when the run started have addresses from 101.
ReadBack(request) == request.url < 100

\* C15: an entry a worker added for a GET request of address u marked
\* use_hcf with hcf_params {'qdata': d}, read back by a pull of the slot it
\* was added to, is yielded by process_start_requests as a GET request of
\* address u whose meta['hcf_params']['qdata'] is d: every request yielded
\* from an entry added during the run has the address and the queue data of
\* a link that a worker recorded.
C15_QDataRoundTrip ==
    \A w \in active :
        \A x \in 1..Len(c[w].emitted) :
            LET item == c[w].emitted[x]
            IN  ReadBack(item) =>
                  /\ item.kind = "request" /\ item.method = "GET"
                  /\ \E v \in active :
                        \E r \in Recorded(c[v]) :
                            r.url = item.url /\ QData(r) = QData(item)

\* A worker yielded the request of address 2 with queue data "d1" that the
\* other worker had recorded.
C15_Witness ==
    \E w, v \in active :
        /\ w # v
        /\ \E x \in 1..Len(c[w].emitted) :
              /\ c[w].emitted[x].url = 2
              /\ c[w].emitted[x].meta = {<<"hcf_params", {<<"qdata", "d1">>}>>}
        /\ Recorded(c[v]) =
              {Request(2, "GET", {<<"use_hcf", TRUE>>,
                                  <<"hcf_params", {<<"qdata", "d1">>}>>})}
        /\ Recorded(c[w]) = {}

\* The key of a request as the claim has it: meta's deltafetch_key, else the
\* request's fingerprint.
KeyOf(request) ==
    IF \E p \in request.meta : p[1] = "deltafetch_key" /\ p[2] # ""
    THEN (CHOOSE p \in request.meta : p[1] = "deltafetch_key")[2]
    ELSE request_fingerprint(request)

\* What going through the elements of seg yields, and the seen-db afterwards,
\* when the seen-db holds seen before and key is the key of the response's
\* request.
RECURSIVE DeltaOutput(_, _, _)
DeltaOutput(seen, key, seg) ==
    IF seg = <<>> THEN [yielded |-> <<>>, seen |-> seen]
    ELSE LET r == Head(seg)
             dropped == r.kind = "request" /\ KeyOf(r) \in seen
             rest == DeltaOutput(IF r.kind = "item" THEN seen \cup {key} ELSE seen,
                                 key, Tail(seg))
         IN  [rest EXCEPT !.yielded = IF dropped THEN @ ELSE <<r>> \o @]

\* C16: every run of process_spider_output to its next element, with the db
\* open, yields the elements it went through in their order but the
\* Requests whose key was in the db when they were reached, and adds to the
\* db the key of the response's request for every item it reached and
\* nothing else.
C16_DropSeenRequests ==
    [][ ( /\ deltafetch.db = "open"
          /\ deltafetch.so_pc \in {"created", "suspended"}
          /\ deltafetch'.i # deltafetch.i \/ deltafetch'.so_pc # deltafetch.so_pc )
        => LET seg == SubSeq(deltafetch.result, deltafetch.i + 1, deltafetch'.i)
               out == DeltaOutput(deltafetch.keys, KeyOf(deltafetch.response), seg)
           IN  /\ deltafetch'.returned = deltafetch.returned \o out.yielded
               /\ deltafetch'.keys = out.seen
               /\ deltafetch'.so_pc \in {"suspended", "done"}
               /\ deltafetch'.so_pc = "done" => deltafetch'.i = Len(deltafetch.result)
      ]_vars

\* In the first cycle, on an empty db, the result [item, Request with
\* deltafetch_key 'key1'] of a response whose request has the key 'key1' was
\* run through: the item was yielded and its key stored, the Request dropped.
C16_Witness ==
    /\ deltafetch.so_pc = "done"
    /\ deltafetch.result = <<ScrapedItem(1), Request(1, "GET", {<<"deltafetch_key", "key1">>})>>
    /\ deltafetch.returned = <<ScrapedItem(1)>>
    /\ deltafetch.stored = {<<1, "key1">>}
    /\ deltafetch.file = {} /\ deltafetch.keys = {"key1"}

\* C17: right after spider_opened the db is empty when DELTAFETCH_RESET or
\* the spider's deltafetch_reset is set, and holds every key stored in an
\* earlier cycle (and every key the file held) when neither is.
C17_KeysKeptUnlessReset ==
    [][ deltafetch'.cycle = deltafetch.cycle + 1 =>
           /\ deltafetch'.db = "open"
           /\ IF deltafetch.reset \/ deltafetch.spider_reset
              THEN deltafetch'.keys = {}
              ELSE /\ \A p \in deltafetch.stored : p[2] \in deltafetch'.keys
                   /\ deltafetch.file \subseteq deltafetch'.keys
      ]_vars

\* The second cycle of a spider without reset has just opened a db that
\* holds the key stored in the first cycle.
C17_Witness ==
    /\ deltafetch.cycle = 2 /\ deltafetch.db = "open" /\ deltafetch.outputs = 0
    /\ ~deltafetch.reset /\ ~deltafetch.spider_reset
    /\ deltafetch.stored = {<<1, "fp1">>}
    /\ deltafetch.keys = {"fp1"}

\* C18: RequiredFields(f1, ..., fn) called with an item raises
\* AssertionError exactly when some fi is not a key of the item; a field the
\* item holds passes whatever its value, False and None included.
C18_RaisesIffKeyMissing ==
    constraint.pc \in {"returned", "raised"} =>
        ((constraint.pc = "raised") <=>
            \E k \in 1..Len(constraint.fields) :
                constraint.fields[k] \notin DictKeys(constraint.item))

\* C19: when close_spider sends the delete of the consumed batches, every
\* link added during the run is already stored in the frontier: no consumed
\* batch is deleted while an added link is held only by the batch uploader.
C19_StoredBeforeDelete ==
    \A w \in active :
        \A k \in 1..Len(c[w].deletes) :
            c[w].deletes[k] # <<>> => c[w].pending_at_delete = <<>>

\* The batches of the read response all of whose requests have been yielded
\* when n requests of the frontier have been, and those of which at least
\* one has been.
YieldedInFull(resp, n) ==
    {j \in 1..Len(resp) : Len(PrefixRequests(resp, j)) <= n}

YieldedFrom(resp, n) ==
    {j \in 1..Len(resp) : Len(PrefixRequests(resp, j - 1)) < n}

\* How many times an identifier is in the ledger.
TimesInLedger(ids, id) == Cardinality({k \in 1..Len(ids) : ids[k] = id})

\* C20: while the requests of process_start_requests are consumed, one at a
\* time and possibly never to the end, and until the delete is sent,
\* batch_ids holds the identifiers of the first batches of the read response,
\* in the order read and each once, and only of batches whose requests have
\* all been yielded; the identifier of a batch yielded in part is not in it;
\* and once the requests of the frontier have been consumed to the end it
\* holds the identifier of every batch a request was yielded from, once.
C20_LedgerOfYieldedBatches ==
    \A w \in active :
        LET m == c[w]
            n == Len(FrontierEmitted(m))
            full == YieldedInFull(m.resp, n)
            from == YieldedFrom(m.resp, n)
        IN  m.deletes = <<>> =>
              /\ Len(m.batch_ids) <= Len(m.resp)
              /\ \A k \in 1..Len(m.batch_ids) :
                    m.batch_ids[k] = m.resp[k].id /\ k \in full
              /\ \A j \in 1..Len(m.resp) :
                    TimesInLedger(m.batch_ids, m.resp[j].id) <= 1
              /\ \A j \in from \ full :
                    TimesInLedger(m.batch_ids, m.resp[j].id) = 0
              /\ PullConsumed(m) =>
                    \A j \in from : TimesInLedger(m.batch_ids, m.resp[j].id) = 1

\* The consumption stopped at the first request of the second batch, of two
\* requests: the ledger holds the first batch's identifier only.
C20_Witness ==
    \E w \in active :
        LET m == c[w]
        IN  /\ m.sr_pc = "in_batch" /\ Len(m.resp) = 2
            /\ Len(m.resp[2].requests) = 2
            /\ Len(FrontierEmitted(m)) = Len(m.resp[1].requests) + 1
            /\ m.batch_ids = <<m.resp[1].id>>

RECURSIVE CountOf(_, _)
\* The mapping of the counts after one more link for each slot of the
\* entries, which are pairs <<slot, fp>>.
CountOf(count, entries) ==
    IF entries = <<>> THEN count
    ELSE LET slot == entries[1][1]
             others == {p \in count : p[1] # slot}
             before == IF \E p \in count : p[1] = slot
                       THEN (CHOOSE p \in count : p[1] = slot)[2] ELSE 0
         IN  CountOf(others \cup {<<slot, before + 1>>}, Tail(entries))

\* The step in which fclient.read, fclient.add or fclient.delete raised.
ReadRaised(m, m2) == m.sr_pc = "created" /\ m2.sr_pc = "raised"

AddRaised(m, m2) ==
    /\ m.so_pc \in {"created", "suspended"}
    /\ m2.so_pc = "raised" /\ m2.so_error = "RemoteCallError"

DeleteRaisedNow(m, m2) == m.cs_pc = "open" /\ DeleteRaised(m2)

\* C21: a read, add or delete call that raises ends the step that made it
\* with the exception, and the call is made once.  A read that raised leaves
\* batch_ids and new_links_count as they were, and nothing was yielded.  An
\* add that raised leaves batch_ids as it was and new_links_count with the
\* counts of the adds that returned before it in the step, and the link was
\* neither added nor yielded.  A delete that raised leaves batch_ids as it
\* was, the identifiers the call carried, and new_links_count as
\* _save_new_links_count had left it just before the call, empty.
C21_FailedCallChangesNothing ==
    [][ \A w \in active :
          LET m == c[w]
              m2 == c'[w]
              returned == SubSeq(m2.added, Len(m.added) + 1, Len(m2.added))
          IN  /\ ReadRaised(m, m2) =>
                    /\ m2.reads = m.reads + 1
                    /\ m2.batch_ids = m.batch_ids
                    /\ m2.new_links_count = m.new_links_count
                    /\ m2.emitted = m.emitted
              /\ AddRaised(m, m2) =>
                    /\ m2.batch_ids = m.batch_ids
                    /\ m2.new_links_count = CountOf(m.new_links_count, returned)
                    /\ Len(m2.added) - m.added_before + Len(m2.returned) = m2.i - 1
                    /\ IsHcfLink(m2.result[m2.i])
              /\ DeleteRaisedNow(m, m2) =>
                    /\ m2.deletes = Append(m.deletes, m.batch_ids)
                    /\ m2.batch_ids = m.batch_ids
                    /\ m2.new_links_count = {}
                    /\ m2.jobs = m.jobs
      ]_vars

\* An add raised after another add of the same result had returned, in a
\* run that had read a batch.
C21_Witness ==
    \E w \in active :
        /\ c[w].so_pc = "raised" /\ c[w].so_error = "RemoteCallError"
        /\ Len(c[w].added) - c[w].added_before = 1
        /\ c[w].new_links_count # {}
        /\ c[w].batch_ids # <<>>

\* The slot a link is for: what the spider's slot_callback answers, or the
\* decimal string of md5(address) mod the number of slots.
ExpectedSlot(m, request) ==
    IF m.slot_callback = None
    THEN SlotName(Md5Mod(request.url, m.hs_number_of_slots))
    ELSE m.slot_callback

\* The links of the current result that process_spider_output has recorded,
\* in the order of the result: those taken, but the one at which it raised.
RecordedLinks(m) ==
    LET n == IF m.so_pc = "raised" /\ m.so_error # "TypeError" THEN m.i - 1 ELSE m.i
    IN  SelectSeq(SubSeq(m.result, 1, n), IsHcfLink)

\* The entries of a sequence of <<slot, fp>> pairs that are for one slot.
EntriesFor(entries, slot) == SelectSeq(entries, LAMBDA e : e[1] = slot)

\* The last n batches of a slot of the frontier, as pairs <<address, qdata>>
\* of their first entries.
LastEntries(q, slot, n) ==
    [k \in 1..n |-> q[slot][Len(q[slot]) - n + k].requests[1]]

\* C22: for every slot, the entries added for it are those of the links
\* recorded for it, in the order of the result and with every repeated
\* address kept; those the batch uploader has written are the last batches
\* of the slot, one entry each, in that order; until _save_new_links_count
\* runs the slot's count is the number of entries added for it; and once it
\* has run the mapping is empty, so that running it again logs nothing and
\* changes nothing.
C22_SentAsRecorded ==
    \A w \in active :
        LET m == c[w]
            stored == SubSeq(m.added, 1, Len(m.added) - Len(m.pending))
        IN  /\ \A slot \in AllSlots :
                  LET sent == EntriesFor(AddedNow(m), slot)
                      links == SelectSeq(RecordedLinks(m),
                                         LAMBDA x : ExpectedSlot(m, x) = slot)
                      written == EntriesFor(stored, slot)
                  IN  /\ [k \in 1..Len(sent) |-> <<EntryUrl(sent[k]),
                                                    DictGet(sent[k][2], "qdata", None)>>]
                            = [k \in 1..Len(links) |-> <<links[k].url, QData(links[k])>>]
                      /\ Len(queue[slot]) >= Len(written)
                      /\ LastEntries(queue, slot, Len(written))
                            = [k \in 1..Len(written) |->
                                  <<EntryUrl(written[k]),
                                    DictGet(written[k][2], "qdata", None)>>]
                      /\ m.new_links_default = "int" =>
                            DictGet(m.new_links_count, slot, 0)
                               = Len(EntriesFor(m.added, slot))
            /\ m.new_links_default = "int" =>
                  DictKeys(m.new_links_count) = {m.added[k][1] : k \in 1..Len(m.added)}
            /\ m.new_links_default = "list" =>
                  /\ m.new_links_count = {}
                  /\ SaveNewLinksMessages(m) = {}
                  /\ save_new_links_count(m) = m

\* Two links with the same address were added for one slot and counted
\* twice, the uploader wrote both, and the run was closed with 'finished':
\* the mapping is empty.
C22_Witness ==
    \E w \in active :
        LET m == c[w]
        IN  /\ m.cs_pc = "returned" /\ m.reason = "finished"
            /\ Len(m.added) = 2 /\ m.added[1] = m.added[2]
            /\ m.pending = <<>>
            /\ Len(queue[m.added[1][1]]) >= 2
            /\ m.new_links_count = {}

\* C23: has_new_requests has been assigned whenever close_spider comes to
\* the test of lines 199-203 (jobs are enabled and the reason is one of
\* HS_START_JOB_ON_REASON), also when the engine has not yet asked
\* process_start_requests for its first request; in particular a spider
\* closed by a shutdown, at whatever point, does not make close_spider end
\* with the AttributeError of reading the flag.
C23_FlagDefinedAtClose ==
    \A w \in active :
        ( /\ Closed(c[w]) /\ c[w].reason = "shutdown"
          /\ c[w].hs_start_job_enabled
          /\ c[w].reason \in c[w].hs_start_job_on_reason )
            => /\ c[w].cs_error # "AttributeError"
               /\ c[w].cs_error = None => c[w].has_new_requests \in {"True", "False"}

\* The spider is closed and no job is waiting to run.
ChainEnded == scheduled = <<>> /\ \A w \in active : Closed(c[w])

\* C24: with jobs enabled for 'finished', every job closed with 'finished'
\* and no link added to the consumed slot, the chain of jobs comes to an
\* end: a job is closed that requested no other.
C24_ChainEnds == <>ChainEnded

\* The item's type has fields in item_fields.
Registered(item) == \E p \in item_fields : p[1] = item.type

\* A field the guid of the item's type is made of is None.
MissingGuidField(item) ==
    \E p \in item_fields :
        /\ p[1] = item.type
        /\ \E k \in 1..Len(p[2]) :
              \A v \in FieldValues \ {FieldNone} : <<p[2][k], v>> \notin item.fields

\* item['guid'] after process_item.
GuidField(item) == (CHOOSE p \in item.fields : p[1] = "guid")[2]

\* C25: between spider_opened and spider_closed the guids of the items
\* returned are all different; and each process_item call either returns an
\* item of an unregistered type and leaves the seen set as it was, or drops
\* an item of a registered type one of whose guid fields is None (its guid
\* is None) and leaves the set as it was, or drops an item whose guid is in
\* the set and leaves the set as it was, or returns an item whose guid is
\* not in the set and adds the guid to it.
C25_OneItemPerGuid ==
    /\ [](guidpipeline.pc = "open" =>
             /\ \A j, k \in 1..Len(guidpipeline.returned) :
                   guidpipeline.returned[j] = guidpipeline.returned[k] => j = k
             /\ guidpipeline.guids = {guidpipeline.returned[k] :
                                         k \in 1..Len(guidpipeline.returned)})
    /\ [][ (guidpipeline.pc = "open" /\ guidpipeline'.calls = guidpipeline.calls + 1) =>
             LET p == guidpipeline
                 q == guidpipeline'
                 item == q.item
             IN  IF ~Registered(item)
                 THEN q.outcome = "returned" /\ q.guids = p.guids
                 ELSE IF MissingGuidField(item)
                 THEN /\ GuidField(item) = FieldNone
                      /\ q.outcome = "DropItem" /\ q.guids = p.guids
                 ELSE /\ GuidField(item) # FieldNone
                      /\ IF GuidField(item) \in p.guids
                         THEN q.outcome = "DropItem" /\ q.guids = p.guids
                         ELSE /\ q.outcome = "returned"
                              /\ q.guids = p.guids \cup {GuidField(item)}
         ]_vars

\* After an item was returned, an item of other field values with the same
\* guid was dropped.
C25_Witness ==
    /\ guidpipeline.pc = "open" /\ guidpipeline.calls = 2
    /\ Len(guidpipeline.returned) = 1
    /\ guidpipeline.outcome = "DropItem"
    /\ Registered(guidpipeline.item)
    /\ GuidField(guidpipeline.item) \in guidpipeline.guids
    /\ <<"id", <<1, 2>> >> \in guidpipeline.item.fields

=============================================================================
